---- MODULE Spec2Model ----
(***************************************************************************)
(* A model of the tender dashboard's services: single-item and batch       *)
(* enrichment (src/src/services/claudeAnalyzer.js, first service), the     *)
(* OCDS JSON and OCDS CSV fetch pipelines (same file, second and third     *)
(* service) and the two-source merge pipeline (src/unnamed/part_002).      *)
(*                                                                         *)
(* JavaScript objects are functions from field names to values, so that    *)
(* an absent field is a name outside DOMAIN and an object spread is a      *)
(* function override.  Text that the code inspects character by character  *)
(* is a sequence of one-character strings or of tokens.                    *)
(***************************************************************************)
EXTENDS Integers, Sequences, FiniteSets, TLC

VARIABLES
    \* ---- environment shared by the enrichment specifications
    apiKey,        \* TRUE iff getApiKey() returns a key
    today,         \* the current date, in days
    clock,         \* Date.now(), in ms
    apiCalls,      \* requests to the completion endpoint started so far
    inFlight,      \* requests to the completion endpoint not yet settled
    \* ---- single-item enrichment (analyzeTenderWithClaude)
    tender,        \* the argument of the call
    enrichPc,      \* "idle" | "awaiting" | "done"
    enrichOutcome, \* the outcome of the external call that settled the run
    enrichSettled, \* the promise: [settled, value]
    attempts,      \* enrichment runs started on this tender, in sequence
    \* ---- batch enrichment (analyzeTendersBatch)
    batchTenders,  \* the argument tenders: [isArray, items]
    onProgress,    \* the argument onProgress: "function" | "absent"
    batchPc,       \* "idle" | "awaiting" | "settling" | "delay" | "done"
    idx,           \* the loop variable i, plus one
    syncError,     \* the error of an item that failed before its request
    results,       \* the array results
    progressLog,   \* the invocations of onProgress so far
    itemLog,       \* per item call: [item, start, end] in clock time
    wakeAt,        \* when the pending inter-call timer fires
    batchSettled,  \* "pending" | "resolved" | "rejected"
    \* ---- fetch pipelines (fetchAndProcessTenders, three services)
    pipeline,      \* the service in use: "ocds" | "csv" | "merge" | "none"
    remote,        \* what each data source answers with, per source
    storage,       \* sessionStorage: per cache key [present, timestamp, data]
    fetchPc,       \* "idle" | "running" | "done" | "off"
    call,          \* per source, the state of its fetch function call
    working,       \* the list the last completed fetch returned
    fetches,       \* fetches started so far
    \* ---- deduplication as a function of its input list
    dedupeKey,     \* "id" (CSV pipeline) | "title_org" (mergeTenderData)
    dedupePc,      \* "input" | "once" | "twice" | "off"
    xs,            \* the input list
    ys,            \* dedupe(xs)
    zs,            \* dedupe(dedupe(xs))
    \* ---- normalization of one raw record, as a function of the record
    normSource, \* the parser: "ocds" | "csv" | "cf" | "fts"
    normPc, \* "input" | "done" | "off"
    normNow, \* new Date() at the time of the parse, in hours
    normRaw, \* the raw record: its monetary and date fields
    normOut, \* the value and deadline of the tender built from it
    \* ---- estimateAnalysisCost, as a function of the count
    tenderCount, \* the argument
    costPc, \* input, done or off
    costEstimate, \* what the call returned or threw
    \* ---- App.jsx: the live data of the dashboard
    dataSource, \* sample or live
    liveTenders, \* the tenders of the last successful fetch
    isFetching, \* a fetch is under way
    fetchError, \* null or the message shown
    lastUpdated, \* null or the time of the last successful fetch
    fetchedTenders, \* the answer of fetchAndProcessTenders, once settled
    \* ---- App.jsx: the filtered and sorted view
    sampleTenders, \* the sample tenders imported from data/tenders.js
    statusFilter, \* all or a status
    recommendationFilter, \* all or a recommendation
    categoryFilter, \* the selected categories
    sortBy, \* the sort order
    filteredAndSortedTenders, \* the memoized view, or the error of its computation
    \* ---- App.jsx: the analysis of tenders from the dashboard
    apiKeyStatus, \* what checkApiStatus returned: [isReady]
    autoAnalyze, \* the checkbox
    isAnalyzing, \* a batch is under way
    analysisProgress, \* [current, total]
    sessionAnalysisCount, \* tenders counted as analyzed
    sessionAnalysisCost, \* the sum, kept as the counts whose estimates were added
    analyzedTenders, \* the set of ids
    tenderAnalysisStatus, \* per id: none, analyzing, success or error
    singleRuns, \* the calls of handleAnalyzeSingleTender that await their result
    batchRun, \* null or the call of handleAnalyzeBatch that awaits its result
    autoTimer, \* null or the timer of the auto-analyze effect
    lastSettled, \* the results of the last attempt that completed, numbered
    \* ---- the text functions of the CSV service, as functions of their input
    textFn, \* the function: parseCSVLine, parseOCDSCSV or extractCategories
    textPc, \* input, done or off
    textInput, \* the argument
    textOutput \* what the call returned or threw

envVars    == <<apiKey, today, clock, apiCalls, inFlight>>
enrichVars == <<tender, enrichPc, enrichOutcome, enrichSettled, attempts>>
batchVars  == <<batchTenders, onProgress, batchPc, idx, syncError, results,
                progressLog, itemLog, wakeAt, batchSettled>>
fetchVars  == <<pipeline, remote, storage, fetchPc, call, working, fetches>>
dedupeVars == <<dedupeKey, dedupePc, xs, ys, zs>>
normVars == <<normSource, normPc, normNow, normRaw, normOut>>
costVars == <<tenderCount, costPc, costEstimate>>
liveVars == <<dataSource, liveTenders, isFetching, fetchError, lastUpdated, fetchedTenders>>
viewVars == <<sampleTenders, statusFilter, recommendationFilter, categoryFilter, sortBy, filteredAndSortedTenders>>
analysisVars == <<apiKeyStatus, autoAnalyze, isAnalyzing, analysisProgress, sessionAnalysisCount, sessionAnalysisCost, analyzedTenders, tenderAnalysisStatus, singleRuns, batchRun, autoTimer, lastSettled>>
textVars == <<textFn, textPc, textInput, textOutput>>
vars ==
    <<envVars, enrichVars, batchVars, fetchVars, dedupeVars, normVars, costVars, liveVars, viewVars, analysisVars, textVars>>

\* what an action of one service leaves alone: the other services' state
notEnrich == <<batchVars, fetchVars, dedupeVars, normVars, costVars, liveVars, viewVars, analysisVars, textVars>>
notBatch == <<enrichVars, fetchVars, dedupeVars, normVars, costVars, liveVars, viewVars, analysisVars, textVars>>
notFetch == <<enrichVars, batchVars, dedupeVars, normVars, costVars, liveVars, viewVars, analysisVars, textVars>>
notDedupe == <<envVars, enrichVars, batchVars, fetchVars, normVars, costVars, liveVars, viewVars, analysisVars, textVars>>
notNorm == <<enrichVars, batchVars, fetchVars, dedupeVars, costVars, liveVars, viewVars, analysisVars, textVars>>
notCost == <<enrichVars, batchVars, fetchVars, dedupeVars, normVars, liveVars, viewVars, analysisVars, textVars>>
notLive == <<enrichVars, batchVars, fetchVars, dedupeVars, normVars, costVars, viewVars, analysisVars, textVars>>
notView == <<enrichVars, batchVars, fetchVars, dedupeVars, normVars, costVars, liveVars, analysisVars, textVars>>
notAnalysis == <<enrichVars, batchVars, fetchVars, dedupeVars, normVars, costVars, liveVars, viewVars, textVars>>
notText == <<enrichVars, batchVars, fetchVars, dedupeVars, normVars, costVars, liveVars, viewVars, analysisVars>>

----------------------------------------------------------------------------
(* JavaScript objects *)

\* { ...base, ...upd }
Spread(base, upd) ==
    [f \in (DOMAIN base) \cup (DOMAIN upd) |->
        IF f \in DOMAIN upd THEN upd[f] ELSE base[f]]

Has(obj, f) == f \in DOMAIN obj

\* the value null
Null == [isNull |-> TRUE]

----------------------------------------------------------------------------
(* claudeAnalyzer.js: API_CONFIG *)

requestDelay == 500


----------------------------------------------------------------------------
(* Exceptions and strings *)

\* a completed evaluation: a value, or a thrown Error with its message
Returned(v) == [threw |-> FALSE, value |-> v]
Thrown(msg) == [threw |-> TRUE, message |-> msg]

\* A message is the sequence of the phrases it is concatenated from.
\* String.prototype.includes for a phrase that is matched whole.
Includes(msg, phrase) == \E k \in 1..Len(msg) : msg[k] = phrase

\* the message is not the empty string
NonEmptyText(msg) == \E k \in 1..Len(msg) : msg[k] # ""

----------------------------------------------------------------------------
(* Reply text: a sequence of tokens.  A token is a code fence (FENCE for   *)
(* three backticks, FENCE_JSON for three backticks and json), a line       *)
(* break, a blank, a JSON document (with the value it parses to) or other  *)
(* text.                                                                   *)

Tok(s)     == [t |-> s]
JsonTok(v) == [t |-> "json", v |-> v]

IsWhitespace(tok) == tok.t \in {"NL", "SP"}

RECURSIVE TrimStart(_)
TrimStart(text) ==
    IF text # <<>> /\ IsWhitespace(Head(text)) THEN TrimStart(Tail(text)) ELSE text

RECURSIVE TrimEnd(_)
TrimEnd(text) ==
    IF text # <<>> /\ IsWhitespace(text[Len(text)])
    THEN TrimEnd(SubSeq(text, 1, Len(text) - 1))
    ELSE text

\* String.prototype.trim
Trim(text) == TrimEnd(TrimStart(text))

StartsWith(text, s) == text # <<>> /\ Head(text).t = s

\* .replace(/^<fence>\n?/, '') for a text that starts with <fence>
StripOpeningFence(text) ==
    LET rest == Tail(text)
    IN  IF rest # <<>> /\ Head(rest).t = "NL" THEN Tail(rest) ELSE rest

\* .replace(/\n?<fence>$/, '')
StripClosingFence(text) ==
    IF text # <<>> /\ text[Len(text)].t = "FENCE"
    THEN LET rest == SubSeq(text, 1, Len(text) - 1)
         IN  IF rest # <<>> /\ rest[Len(rest)].t = "NL"
             THEN SubSeq(rest, 1, Len(rest) - 1)
             ELSE rest
    ELSE text

\* JSON values
JObject(obj) == [kind |-> "object", fields |-> obj]
JArray       == [kind |-> "array"]
JNull        == [kind |-> "null"]
JNumber      == [kind |-> "number"]

\* JSON.parse: one JSON document, white space allowed around it
JSONparse(text) ==
    LET t == Trim(text)
    IN  IF Len(t) = 1 /\ t[1].t = "json"
        THEN Returned(t[1].v)
        ELSE Thrown(<<"Unexpected token">>)

----------------------------------------------------------------------------
(* claudeAnalyzer.js: parseClaudeResponse *)

RequiredFields ==
    <<"alignment_score", "rationale", "win_themes", "competitors",
      "weak_spots", "recommendation">>

\* the first required field that is not `in parsed`, 0 when there is none
RECURSIVE FirstMissing(_, _)
FirstMissing(obj, k) ==
    IF k > Len(RequiredFields) THEN 0
    ELSE IF ~Has(obj, RequiredFields[k]) THEN k
    ELSE FirstMissing(obj, k + 1)

\* !parsed.categories : absent, or the empty string / null, not an array
CategoriesFalsy(obj) == ~Has(obj, "categories")

\* the try block of parseClaudeResponse
parseClaudeResponseTry(responseText) ==
    LET trimmed == Trim(responseText)
        cleanedText ==
            IF StartsWith(trimmed, "FENCE_JSON")
            THEN StripClosingFence(StripOpeningFence(trimmed))
            ELSE IF StartsWith(trimmed, "FENCE")
            THEN StripClosingFence(StripOpeningFence(trimmed))
            ELSE trimmed
        parsed == JSONparse(cleanedText)
    IN  IF parsed.threw THEN parsed
        ELSE IF parsed.value.kind \in {"null", "number"}
        THEN \* field in parsed on a primitive is a TypeError
             Thrown(<<"Cannot use in operator to search for alignment_score">>)
        ELSE LET obj == IF parsed.value.kind = "object"
                        THEN parsed.value.fields
                        ELSE [length |-> 0]
                 miss == FirstMissing(obj, 1)
             IN  IF miss # 0
                 THEN Thrown(<<"Missing required field: ", RequiredFields[miss]>>)
                 ELSE IF CategoriesFalsy(obj)
                 THEN Returned(Spread(obj, [categories |-> <<>>]))
                 ELSE Returned(obj)

\* catch: every error is rethrown as "Failed to parse Claude response: ..."
parseClaudeResponse(responseText) ==
    LET r == parseClaudeResponseTry(responseText)
    IN  IF r.threw
        THEN Thrown(<<"Failed to parse Claude response: ">> \o r.message)
        ELSE r

----------------------------------------------------------------------------
(* claudeAnalyzer.js: validateApiKey, callClaudeAPI *)

\* validateApiKey: throws when getApiKey() has no key
validateApiKey(key) ==
    IF ~key
    THEN Thrown(<<"No API key configured. Please set your Anthropic API key">>)
    ELSE Returned(key)

ResponseOk(status) == status >= 200 /\ status <= 299

\* data.content.find(block => block.type === 'text'): its index, 0 when none
RECURSIVE FindTextBlock(_, _)
FindTextBlock(content, k) ==
    IF k > Len(content) THEN 0
    ELSE IF content[k].type = "text" THEN k
    ELSE FindTextBlock(content, k + 1)

\* the try block of callClaudeAPI from the point where fetch() has settled
callClaudeAPITry(resp) ==
    IF resp.kind = "reject" THEN Thrown(resp.message)
    ELSE IF ~ResponseOk(resp.status)
    THEN IF resp.status = 401
         THEN Thrown(<<"Invalid API key. Please check your Anthropic API key and try again.">>)
         ELSE IF resp.status = 429
         THEN Thrown(<<"Rate limit exceeded. Please wait a moment and try again.">>)
         ELSE IF resp.status = 400
         THEN Thrown(<<"Bad request: ", resp.errorBody>>)
         ELSE Thrown(<<"API error (", ToString(resp.status), "): ", resp.errorBody>>)
    ELSE LET data == resp.data
         IN  IF data.kind = "syntaxerror"
             THEN Thrown(<<"Unexpected end of JSON input">>)
             ELSE IF data.kind = "null"
             THEN Thrown(<<"Cannot read properties of null">>)
             ELSE IF ~data.hasContent \/ ~data.isArray \/ Len(data.content) = 0
             THEN Thrown(<<"Invalid response format from Claude API">>)
             ELSE LET k == FindTextBlock(data.content, 1)
                  IN  IF k = 0 \/ data.content[k].text = <<>>
                      THEN Thrown(<<"No text content in Claude response">>)
                      ELSE Returned(data.content[k].text)

\* catch: a transport failure is reworded, everything else is rethrown
callClaudeAPI(resp) ==
    LET r == callClaudeAPITry(resp)
    IN  IF r.threw /\ (Includes(r.message, "Failed to fetch")
                       \/ Includes(r.message, "NetworkError"))
        THEN Thrown(<<"Network error: Unable to reach Anthropic API. Please check your internet connection.">>)
        ELSE r

----------------------------------------------------------------------------
(* claudeAnalyzer.js: buildAnalysisPrompt, analyzeTenderWithClaude *)

\* buildAnalysisPrompt reads tender.value.toLocaleString(): a TypeError
\* when the tender has no value
buildAnalysisPrompt(t) ==
    IF ~Has(t, "value")
    THEN Thrown(<<"Cannot read properties of undefined (reading toLocaleString)">>)
    ELSE Returned(<<"prompt">>)

\* the synchronous part of analyzeTenderWithClaude, up to the fetch():
\* a thrown error, or the request is started
analyzeTenderSync(t, key) ==
    LET prompt == buildAnalysisPrompt(t)
    IN  IF prompt.threw THEN prompt ELSE validateApiKey(key)

\* the fallback of analyzeTenderWithClaude's catch block
AnalysisFallback(t, message) ==
    Spread(t, [sirona_fit |->
                  [alignment_score |-> 50,
                   rationale       |-> <<"Unable to analyze: ">> \o message,
                   win_themes      |-> <<"Analysis pending">>,
                   competitors     |-> <<"Unknown">>,
                   weak_spots      |-> <<"AI analysis failed">>,
                   recommendation  |-> "Monitor",
                   categories      |-> <<>>],
               ai_analyzed    |-> FALSE,
               analysis_error |-> message])

\* analyzeTenderWithClaude with a catch block that handles the failure of
\* the call only, and lets a failure to parse the reply escape
analyzeTenderWithClaude_parseEscapes(t, r, now) ==
    LET sironaFit == IF r.threw THEN r ELSE parseClaudeResponse(r.value)
    IN  IF ~sironaFit.threw
        THEN [settled |-> "resolved",
              value   |-> Spread(t, [sirona_fit  |-> sironaFit.value,
                                     ai_analyzed |-> TRUE,
                                     analyzed_at |-> now])]
        ELSE IF r.threw
        THEN [settled |-> "resolved",
              value   |-> AnalysisFallback(t, sironaFit.message)]
        ELSE [settled |-> "rejected", value |-> t, message |-> sironaFit.message]

\* the promise analyzeTenderWithClaude returns, given what the call of
\* callClaudeAPI (or a step before it) came to: r is the response text or
\* the error thrown
analyzeTenderWithClaude(t, r, now) ==
    LET sironaFit == IF r.threw THEN r ELSE parseClaudeResponse(r.value)
    IN  IF ~sironaFit.threw
        THEN [settled |-> "resolved",
              value   |-> Spread(t, [sirona_fit  |-> sironaFit.value,
                                     ai_analyzed |-> TRUE,
                                     analyzed_at |-> now])]
        ELSE [settled |-> "resolved",
              value   |-> AnalysisFallback(t, sironaFit.message)]

Pending == [settled |-> "pending"]

----------------------------------------------------------------------------
(* Inputs of the enrichment: tenders, and what the completion endpoint     *)
(* may answer.  Each answer carries a label saying what kind of answer it  *)
(* is; the code's operators above never read the label.                    *)

MaxDay      == 3    \* deadlines and dates range over 1..MaxDay
MaxAttempts == 2    \* enrichment runs in sequence on one tender

Without(obj, f) == [g \in (DOMAIN obj) \ {f} |-> obj[g]]

BaseTender(id, deadline) ==
    [id |-> id, title |-> <<"t">>, deadline |-> deadline, status |-> "new",
     value |-> 100000, sirona_fit |-> Null]

\* tender objects: with every field, and without a value
EnrichTenders ==
    UNION { { BaseTender("T1", d), Without(BaseTender("T1", d), "value") }
            : d \in 1..MaxDay }

FullFit(score, rec) ==
    [alignment_score |-> score, rationale |-> <<"fit">>,
     win_themes |-> <<"w1", "w2", "w3">>, competitors |-> <<"c1", "c2", "c3">>,
     weak_spots |-> <<"s1", "s2">>, recommendation |-> rec,
     categories |-> <<"Community Health">>]

ReplyFits == { FullFit(92, "Strong Go"), FullFit(30, "No Bid") }

J(obj) == JsonTok(JObject(obj))

\* reply texts, labelled
ReplyTexts ==
       { [label |-> "valid", text |-> <<J(fit)>>] : fit \in ReplyFits }
  \cup { [label |-> "valid", text |-> <<J(Without(FullFit(92, "Strong Go"), "categories"))>>],
         [label |-> "valid", text |-> <<Tok("FENCE_JSON"), Tok("NL"), J(FullFit(92, "Strong Go")), Tok("NL"), Tok("FENCE")>>],
         [label |-> "valid", text |-> <<Tok("FENCE"), Tok("NL"), J(FullFit(30, "No Bid")), Tok("NL"), Tok("FENCE")>>],
         [label |-> "valid", text |-> <<Tok("NL"), J(FullFit(30, "No Bid")), Tok("SP")>>],
         [label |-> "non_json", text |-> <<Tok("TEXT"), J(FullFit(92, "Strong Go"))>>],
         [label |-> "non_json", text |-> <<J(FullFit(92, "Strong Go")), Tok("NL"), Tok("FENCE")>>],
         [label |-> "non_json", text |-> <<Tok("FENCE_JSON"), Tok("NL"), Tok("FENCE")>>],
         [label |-> "missing_field", text |-> <<JsonTok(JArray)>>],
         [label |-> "missing_field", text |-> <<JsonTok(JNull)>>],
         [label |-> "missing_field", text |-> <<JsonTok(JNumber)>> ] }
  \cup { [label |-> "missing_field",
          text  |-> <<J(Without(FullFit(92, "Strong Go"), RequiredFields[k]))>>]
         : k \in 1..Len(RequiredFields) }

Envelope(content, hasContent, isArray) ==
    [kind |-> "object", hasContent |-> hasContent, isArray |-> isArray,
     content |-> content]

TextBlock(text) == [type |-> "text", text |-> text]
ToolBlock       == [type |-> "tool_use", text |-> <<>>]

Response(status, errorBody, data) ==
    [kind |-> "response", status |-> status, errorBody |-> errorBody, data |-> data]

\* what fetch() may settle with, labelled
FetchOutcomes ==
       { [label |-> "network", resp |-> [kind |-> "reject", message |-> m]]
         : m \in { <<"Failed to fetch">>,
                   <<"NetworkError", " when attempting to fetch resource.">>,
                   <<"Load failed">> } }
  \cup { [label |-> "non_2xx", resp |-> Response(st, body, [kind |-> "null"])]
         : st \in {400, 401, 429, 500}, body \in {"", "overloaded", "Failed to fetch"} }
  \cup { [label |-> "bad_envelope", resp |-> Response(200, "", d)]
         : d \in { [kind |-> "syntaxerror"], [kind |-> "null"],
                   Envelope(<<>>, FALSE, FALSE), Envelope(<<>>, TRUE, FALSE),
                   Envelope(<<>>, TRUE, TRUE), Envelope(<<ToolBlock>>, TRUE, TRUE),
                   Envelope(<<TextBlock(<<>>)>>, TRUE, TRUE) } }
  \cup { [label |-> rt.label,
          resp  |-> Response(200, "", Envelope(<<TextBlock(rt.text)>>, TRUE, TRUE))]
         : rt \in ReplyTexts }
  \cup { [label |-> "valid",
          resp  |-> Response(200, "",
                       Envelope(<<ToolBlock, TextBlock(<<J(FullFit(92, "Strong Go"))>>)>>,
                                TRUE, TRUE))] }

\* no request was made: the run failed before fetch()
NoOutcome(message) ==
    [label |-> "no_request", resp |-> [kind |-> "reject", message |-> message]]

----------------------------------------------------------------------------
(* Single-item enrichment: one run of analyzeTenderWithClaude after the    *)
(* other on one tender, each run's result the next run's argument.         *)

\* analyzeTenderWithClaude, up to the await of fetch()
EnrichStart ==
    /\ enrichPc = "idle"
    /\ attempts < MaxAttempts
    /\ attempts' = attempts + 1
    /\ LET sync == analyzeTenderSync(tender, apiKey)
       IN  IF sync.threw
           THEN /\ enrichSettled' = analyzeTenderWithClaude(tender, sync, clock)
                /\ enrichOutcome' = NoOutcome(sync.message)
                /\ enrichPc' = "done"
                /\ UNCHANGED <<apiCalls, inFlight>>
           ELSE /\ apiCalls' = apiCalls + 1
                /\ inFlight' = inFlight + 1
                /\ enrichPc' = "awaiting"
                /\ UNCHANGED <<enrichSettled, enrichOutcome>>
    /\ UNCHANGED <<tender, apiKey, today, clock, notEnrich>>

\* analyzeTenderWithClaude, from the point where fetch() has settled
EnrichComplete ==
    /\ enrichPc = "awaiting"
    /\ \E o \in FetchOutcomes :
          /\ enrichOutcome' = o
          /\ enrichSettled' = analyzeTenderWithClaude(tender, callClaudeAPI(o.resp), clock)
    /\ inFlight' = inFlight - 1
    /\ enrichPc' = "done"
    /\ UNCHANGED <<tender, attempts, apiKey, today, clock, apiCalls, notEnrich>>

\* the caller passes the enriched tender to the next run
EnrichAgain ==
    /\ enrichPc = "done"
    /\ enrichSettled.settled = "resolved"
    /\ attempts < MaxAttempts
    /\ tender' = enrichSettled.value
    /\ enrichPc' = "idle"
    /\ enrichSettled' = Pending
    /\ UNCHANGED <<enrichOutcome, attempts, envVars, notEnrich>>

\* setApiKey / clearApiKey between runs
SetOrClearApiKey ==
    /\ enrichPc = "idle"
    /\ attempts > 0
    /\ apiKey' = ~apiKey
    /\ UNCHANGED <<today, clock, apiCalls, inFlight, enrichVars, notEnrich>>

InitEnv ==
    /\ apiKey \in BOOLEAN
    /\ today \in 1..MaxDay
    /\ clock = 0
    /\ apiCalls = 0
    /\ inFlight = 0

EnrichRunning ==
    /\ tender \in EnrichTenders
    /\ enrichPc = "idle"
    /\ enrichOutcome = NoOutcome(<<>>)
    /\ enrichSettled = Pending
    /\ attempts = 0

\* no single-item run in this specification
EnrichIdle ==
    /\ tender = BaseTender("T1", 1)
    /\ enrichPc = "off"
    /\ enrichOutcome = NoOutcome(<<>>)
    /\ enrichSettled = Pending
    /\ attempts = 0

\* no batch in this specification
BatchIdle ==
    /\ batchTenders = [isArray |-> TRUE, items |-> <<>>]
    /\ onProgress = "absent"
    /\ batchPc = "off"
    /\ idx = 0
    /\ syncError = Thrown(<<>>)
    /\ results = <<>>
    /\ progressLog = <<>>
    /\ itemLog = <<>>
    /\ wakeAt = 0
    /\ batchSettled = "pending"

\* no fetch in this specification
FetchIdle ==
    /\ pipeline = "none"
    /\ remote = <<>>
    /\ storage = <<>>
    /\ fetchPc = "off"
    /\ call = <<>>
    /\ working = <<>>
    /\ fetches = 0

\* no deduplication run in this specification
DedupeIdle ==
    /\ dedupeKey = "id"
    /\ dedupePc = "off"
    /\ xs = <<>>
    /\ ys = <<>>
    /\ zs = <<>>

\* ---- services not in use
NormIdle ==
    /\ normSource = "ocds"
    /\ normPc = "off"
    /\ normNow = 0
    /\ normRaw = <<>>
    /\ normOut = <<>>

CostIdle ==
    /\ tenderCount = 0
    /\ costPc = "off"
    /\ costEstimate = Null

LiveIdle ==
    /\ dataSource = "sample"
    /\ liveTenders = <<>>
    /\ isFetching = FALSE
    /\ fetchError = Null
    /\ lastUpdated = Null
    /\ fetchedTenders = <<>>

ViewIdle ==
    /\ sampleTenders = <<>>
    /\ statusFilter = "all"
    /\ recommendationFilter = "all"
    /\ categoryFilter = <<>>
    /\ sortBy = "deadline-asc"
    /\ filteredAndSortedTenders = Returned(<<>>)

AnalysisIdle ==
    /\ apiKeyStatus = [isReady |-> FALSE]
    /\ autoAnalyze = FALSE
    /\ isAnalyzing = FALSE
    /\ analysisProgress = [current |-> 0, total |-> 0]
    /\ sessionAnalysisCount = 0
    /\ sessionAnalysisCost = <<>>
    /\ analyzedTenders = {}
    /\ tenderAnalysisStatus = [id \in {} |-> "none"]
    /\ singleRuns = {}
    /\ batchRun = Null
    /\ autoTimer = Null
    /\ lastSettled = [n |-> 0, results |-> <<>>]

TextIdle ==
    /\ textFn = "none"
    /\ textPc = "off"
    /\ textInput = <<>>
    /\ textOutput = Null

RestIdle ==
    /\ NormIdle
    /\ CostIdle
    /\ LiveIdle
    /\ ViewIdle
    /\ AnalysisIdle
    /\ TextIdle

IdleExceptNorm ==
    /\ EnrichIdle
    /\ BatchIdle
    /\ FetchIdle
    /\ DedupeIdle
    /\ CostIdle
    /\ LiveIdle
    /\ ViewIdle
    /\ AnalysisIdle
    /\ TextIdle

IdleExceptCost ==
    /\ EnrichIdle
    /\ BatchIdle
    /\ FetchIdle
    /\ DedupeIdle
    /\ NormIdle
    /\ LiveIdle
    /\ ViewIdle
    /\ AnalysisIdle
    /\ TextIdle

IdleExceptLive ==
    /\ EnrichIdle
    /\ BatchIdle
    /\ FetchIdle
    /\ DedupeIdle
    /\ NormIdle
    /\ CostIdle
    /\ ViewIdle
    /\ AnalysisIdle
    /\ TextIdle

IdleExceptView ==
    /\ EnrichIdle
    /\ BatchIdle
    /\ FetchIdle
    /\ DedupeIdle
    /\ NormIdle
    /\ CostIdle
    /\ LiveIdle
    /\ AnalysisIdle
    /\ TextIdle

IdleExceptAnalysis ==
    /\ EnrichIdle
    /\ BatchIdle
    /\ FetchIdle
    /\ DedupeIdle
    /\ NormIdle
    /\ CostIdle
    /\ LiveIdle
    /\ ViewIdle
    /\ TextIdle

IdleExceptText ==
    /\ EnrichIdle
    /\ BatchIdle
    /\ FetchIdle
    /\ DedupeIdle
    /\ NormIdle
    /\ CostIdle
    /\ LiveIdle
    /\ ViewIdle
    /\ AnalysisIdle

InitEnrich ==
    InitEnv /\ EnrichRunning /\ BatchIdle /\ FetchIdle /\ DedupeIdle /\ RestIdle

NextEnrich == EnrichStart \/ EnrichComplete \/ EnrichAgain \/ SetOrClearApiKey

SpecEnrich == InitEnrich /\ [][NextEnrich]_vars

----------------------------------------------------------------------------
(* Claims about single-item enrichment *)

EnrichmentFields == {"sirona_fit", "ai_analyzed", "analyzed_at", "analysis_error"}

FailureLabels ==
    {"no_request", "network", "non_2xx", "bad_envelope", "non_json", "missing_field"}

\* every field of the argument that enrichment does not own is in the result
KeepsTender(t, r) ==
    \A f \in (DOMAIN t) \ EnrichmentFields : Has(r, f) /\ r[f] = t[f]

IsParsedFit(fit) ==
    /\ \A k \in 1..Len(RequiredFields) : Has(fit, RequiredFields[k])
    /\ Has(fit, "categories")
    /\ \E reply \in ReplyFits :
          \A k \in 1..Len(RequiredFields) :
              fit[RequiredFields[k]] = reply[RequiredFields[k]]

IsDefaultFit(fit) ==
    /\ Has(fit, "alignment_score") /\ fit.alignment_score = 50
    /\ Has(fit, "recommendation") /\ fit.recommendation = "Monitor"

\* C1: analyzeTenderWithClaude never rejects for a tender object.  When the
\* call succeeds (a 2xx answer whose text block holds a JSON object with
\* every required field) it resolves to the tender with the parsed
\* sirona_fit, ai_analyzed = true and analyzed_at set; on every failure (no
\* API key, network error, non-2xx answer, empty or text-less envelope,
\* non-JSON reply, reply without a required field) it resolves to the tender
\* with the default sirona_fit (score 50, 'Monitor'), ai_analyzed = false and
\* a non-empty analysis_error.
C1_EnrichNeverRejects ==
    enrichPc = "done" =>
        /\ enrichSettled.settled = "resolved"
        /\ KeepsTender(tender, enrichSettled.value)
        /\ Has(enrichSettled.value, "ai_analyzed")
        /\ enrichOutcome.label = "valid" =>
              /\ enrichSettled.value.ai_analyzed
              /\ Has(enrichSettled.value, "analyzed_at")
              /\ IsParsedFit(enrichSettled.value.sirona_fit)
        /\ enrichOutcome.label \in FailureLabels =>
              /\ ~enrichSettled.value.ai_analyzed
              /\ IsDefaultFit(enrichSettled.value.sirona_fit)
              /\ Has(enrichSettled.value, "analysis_error")
              /\ NonEmptyText(enrichSettled.value.analysis_error)
        /\ enrichOutcome.label \in FailureLabels \cup {"valid"}

\* a run that failed on a reply without a required field, on a tender whose
\* run before had succeeded
C1_Witness ==
    /\ enrichPc = "done"
    /\ attempts = 2
    /\ Has(tender, "ai_analyzed") /\ tender.ai_analyzed
    /\ enrichOutcome.label = "missing_field"
    /\ ~enrichSettled.value.ai_analyzed

\* C2: for a tender whose deadline is strictly before the current date,
\* analyzeTenderWithClaude starts no request to the completion endpoint and
\* resolves to a result whose sirona_fit.recommendation is 'No Bid'.
C2_ExpiredShortCircuits ==
    (attempts = 1 /\ tender.deadline < today) =>
        /\ apiCalls = 0
        /\ enrichPc = "done" =>
              enrichSettled.value.sirona_fit.recommendation = "No Bid"

\* C29: after any sequence of enrichment runs on a tender, the result carries
\* an analysis_error only when its ai_analyzed is false: a tender that failed
\* in one run and succeeds in a later one carries no analysis_error.
C29_ErrorOnlyWhenNotAnalyzed ==
    (enrichPc = "done" /\ enrichSettled.settled = "resolved") =>
        (Has(enrichSettled.value, "analysis_error")
            => ~enrichSettled.value.ai_analyzed)

----------------------------------------------------------------------------
(* claudeAnalyzer.js: analyzeTendersBatch *)

MaxBatch == 3      \* tenders in one batch
TickMs   == 250    \* the clock advances in steps of TickMs
MaxClock == 1500   \* the clock stops here

\* the entry the catch block of the loop pushes
BatchFallback(t, message) ==
    Spread(t, [sirona_fit |->
                  [alignment_score |-> 50,
                   rationale       |-> <<"Analysis failed">>,
                   win_themes      |-> <<>>,
                   competitors     |-> <<>>,
                   weak_spots      |-> <<"Analysis error">>,
                   recommendation  |-> "Monitor",
                   categories      |-> <<>>],
               ai_analyzed    |-> FALSE,
               analysis_error |-> message])

\* the precondition checks of analyzeTendersBatch
BatchPrecondition(tenders, key) ==
    IF ~tenders.isArray \/ Len(tenders.items) = 0
    THEN Thrown(<<"Invalid tenders array provided">>)
    ELSE validateApiKey(key)

\* one invocation of onProgress(current, total, tender)
ProgressCall(current, total, t, started, now) ==
    [current |-> current, total |-> total, tender |-> t,
     itemsStarted |-> started, at |-> now]

\* what the endpoint answers in a batch
BatchOutcomes ==
    { o \in FetchOutcomes :
        \/ o.resp.kind = "reject" /\ o.resp.message = <<"Failed to fetch">>
        \/ o.resp.kind = "response" /\ o.resp.status = 429 /\ o.resp.errorBody = ""
        \/ o.label = "valid" /\ o.resp.data.content = <<TextBlock(<<J(FullFit(92, "Strong Go"))>>)>>
        \/ o.label = "missing_field" /\ o.resp.data.content = <<TextBlock(<<JsonTok(JArray)>>)>> }

\* The state of one run of analyzeTendersBatch, as a record: the operators
\* below compute the run's next state, and Commit assigns it.
BatchState ==
    [pc |-> batchPc, idx |-> idx, syncError |-> syncError, results |-> results,
     progressLog |-> progressLog, itemLog |-> itemLog, wakeAt |-> wakeAt,
     settled |-> batchSettled, apiCalls |-> apiCalls, inFlight |-> inFlight]

Commit(st) ==
    /\ batchPc' = st.pc
    /\ idx' = st.idx
    /\ syncError' = st.syncError
    /\ results' = st.results
    /\ progressLog' = st.progressLog
    /\ itemLog' = st.itemLog
    /\ wakeAt' = st.wakeAt
    /\ batchSettled' = st.settled
    /\ apiCalls' = st.apiCalls
    /\ inFlight' = st.inFlight

\* the loop calls analyzeTenderWithClaude(tenders[k]), which runs up to its
\* fetch(): the request starts, or the call has failed before it
StartItem(st, k, items, key, now) ==
    LET sync    == analyzeTenderSync(items[k], key)
        started == [st EXCEPT !.idx = k,
                              !.itemLog = Append(@, [item |-> k, start |-> now, end |-> -1])]
    IN  IF sync.threw
        THEN [started EXCEPT !.syncError = sync, !.pc = "settling"]
        ELSE [started EXCEPT !.apiCalls = @ + 1, !.inFlight = @ + 1, !.pc = "awaiting"]

\* the loop has ended: return results
Resolve(st) == [st EXCEPT !.pc = "done", !.settled = "resolved"]

\* the next iteration, or the end of the loop
NextIteration(st, items, key, now) ==
    IF st.idx < Len(items)
    THEN StartItem(st, st.idx + 1, items, key, now)
    ELSE Resolve(st)

\* the rest of the try block after onProgress:
\* await setTimeout(requestDelay) unless this was the last item
AfterProgress(st, items, now) ==
    IF st.idx < Len(items)
    THEN [st EXCEPT !.pc = "delay", !.wakeAt = now + requestDelay]
    ELSE Resolve(st)

\* the catch block of the loop: push the fallback entry, invoke onProgress
\* on it (cb says whether that invocation returns or throws)
CatchBlock(st, message, cb, items, key, progress, now) ==
    LET entry  == BatchFallback(items[st.idx], message)
        pushed == [st EXCEPT !.results = Append(@, entry)]
    IN  IF progress = "function"
        THEN LET called == [pushed EXCEPT !.progressLog =
                               Append(@, ProgressCall(st.idx, Len(items), entry, st.idx, now))]
             IN  IF cb = "throws"
                 THEN [called EXCEPT !.pc = "done", !.settled = "rejected"]
                 ELSE NextIteration(called, items, key, now)
        ELSE NextIteration(pushed, items, key, now)

\* the iteration for item st.idx from the point where
\* analyzeTenderWithClaude has settled with `analysis`; cb1 and cb2 say
\* whether the invocations of onProgress return or throw
AfterItem(st, analysis, cb1, cb2, items, key, progress, now) ==
    LET ended == [st EXCEPT !.itemLog[Len(st.itemLog)].end = now]
    IN  IF analysis.settled # "resolved"
        THEN CatchBlock(ended, analysis.message, cb2, items, key, progress, now)
        ELSE LET pushed == [ended EXCEPT !.results = Append(@, analysis.value)]
             IN  IF progress = "function"
                 THEN LET called == [pushed EXCEPT !.progressLog =
                                        Append(@, ProgressCall(st.idx, Len(items),
                                                               analysis.value, st.idx, now))]
                      IN  IF cb1 = "throws"
                          THEN CatchBlock(called, <<"onProgress failed">>, cb2,
                                          items, key, progress, now)
                          ELSE AfterProgress(called, items, now)
                 ELSE AfterProgress(pushed, items, now)

CallbackOutcomes == {"returns", "throws"}

\* analyzeTendersBatch(tenders, onProgress), up to its first await
BatchCall ==
    /\ batchPc = "idle"
    /\ IF BatchPrecondition(batchTenders, apiKey).threw
       THEN Commit([BatchState EXCEPT !.pc = "done", !.settled = "rejected"])
       ELSE Commit(StartItem(BatchState, 1, batchTenders.items, apiKey, clock))
    /\ UNCHANGED <<batchTenders, onProgress, apiKey, today, clock, notBatch>>

\* the request of the current item settles, and the loop runs on to its
\* next await
ItemSettles ==
    /\ batchPc = "awaiting"
    /\ \E o \in BatchOutcomes, cb1 \in CallbackOutcomes, cb2 \in CallbackOutcomes :
          Commit(AfterItem([BatchState EXCEPT !.inFlight = @ - 1],
                           analyzeTenderWithClaude(batchTenders.items[idx],
                                                   callClaudeAPI(o.resp), clock),
                           cb1, cb2, batchTenders.items, apiKey, onProgress, clock))
    /\ UNCHANGED <<batchTenders, onProgress, apiKey, today, clock, notBatch>>

\* the current item failed before its request: the loop runs on from the
\* settled promise
ItemFailsEarly ==
    /\ batchPc = "settling"
    /\ \E cb1 \in CallbackOutcomes, cb2 \in CallbackOutcomes :
          Commit(AfterItem(BatchState,
                           analyzeTenderWithClaude(batchTenders.items[idx], syncError, clock),
                           cb1, cb2, batchTenders.items, apiKey, onProgress, clock))
    /\ UNCHANGED <<batchTenders, onProgress, apiKey, today, clock, notBatch>>

\* the inter-call timer fires: the next iteration starts
TimerFires ==
    /\ batchPc = "delay"
    /\ clock >= wakeAt
    /\ Commit(NextIteration(BatchState, batchTenders.items, apiKey, clock))
    /\ UNCHANGED <<batchTenders, onProgress, apiKey, today, clock, notBatch>>

\* time passes while the run waits
Tick ==
    /\ batchPc \in {"awaiting", "delay"}
    /\ clock + TickMs <= MaxClock
    /\ clock' = clock + TickMs
    /\ UNCHANGED <<apiKey, today, apiCalls, inFlight, batchVars, notBatch>>

\* the arguments of a batch: not an array, the empty array, or up to
\* MaxBatch tenders, one of which may lack its value
BatchItem(k) == BaseTender(<<"T", k>>, 2)

BatchInputs ==
       { [isArray |-> FALSE, items |-> <<>>] }
  \cup { [isArray |-> TRUE, items |-> [k \in 1..n |-> BatchItem(k)]] : n \in 0..MaxBatch }
  \cup { [isArray |-> TRUE,
          items   |-> [k \in 1..n |-> IF k = bad THEN Without(BatchItem(k), "value")
                                                 ELSE BatchItem(k)]]
         : n \in 1..MaxBatch, bad \in 1..MaxBatch }

BatchRunning ==
    /\ batchTenders \in BatchInputs
    /\ onProgress \in {"function", "absent"}
    /\ batchPc = "idle"
    /\ idx = 0
    /\ syncError = Thrown(<<>>)
    /\ results = <<>>
    /\ progressLog = <<>>
    /\ itemLog = <<>>
    /\ wakeAt = 0
    /\ batchSettled = "pending"

InitBatch ==
    /\ apiKey \in BOOLEAN
    /\ today = 1
    /\ clock = 0
    /\ apiCalls = 0
    /\ inFlight = 0
    /\ EnrichIdle
    /\ BatchRunning
    /\ FetchIdle
    /\ DedupeIdle
    /\ RestIdle

NextBatch == BatchCall \/ ItemSettles \/ ItemFailsEarly \/ TimerFires \/ Tick

SpecBatch == InitBatch /\ [][NextBatch]_vars

----------------------------------------------------------------------------
(* Claims about batch enrichment *)

\* the batch was called with a non-empty array and an API key is configured
BatchAccepted ==
    batchTenders.isArray /\ Len(batchTenders.items) > 0 /\ apiKey

\* C3: analyzeTendersBatch, called with a non-empty array of N tenders and a
\* configured API key, resolves to exactly N results, result k being the
\* enrichment of input tender k, whatever the per-item calls and the
\* invocations of onProgress come to.
C3_BatchOneResultPerTender ==
    (batchPc = "done" /\ BatchAccepted) =>
        /\ batchSettled = "resolved"
        /\ Len(results) = Len(batchTenders.items)
        /\ \A k \in 1..Len(batchTenders.items) :
              /\ results[k].id = batchTenders.items[k].id
              /\ KeepsTender(batchTenders.items[k], results[k])
              /\ Has(results[k], "ai_analyzed")

\* C4: in a batch of N tenders onProgress is invoked exactly N times, the
\* k-th time with (k, N, result of item k), when item k has completed and
\* before item k+1 is started.
C4_ProgressOncePerItem ==
    (batchPc = "done" /\ batchSettled = "resolved" /\ onProgress = "function") =>
        /\ Len(progressLog) = Len(batchTenders.items)
        /\ \A k \in 1..Len(progressLog) :
              /\ progressLog[k].current = k
              /\ progressLog[k].total = Len(batchTenders.items)
              /\ k <= Len(results) /\ progressLog[k].tender = results[k]
              /\ progressLog[k].itemsStarted = k
              /\ progressLog[k].at = itemLog[k].end

\* C5: analyzeTendersBatch rejects only when tenders is not an array, is
\* empty, or no API key is configured, and then before any request and any
\* invocation of onProgress; once the loop has started the promise resolves.
C5_BatchRejectsOnlyOnPrecondition ==
    batchSettled = "rejected" =>
        /\ ~BatchAccepted
        /\ apiCalls = 0
        /\ progressLog = <<>>

\* C6: at most one request is in flight at any time; the call for item k+1
\* starts no earlier than requestDelay after item k completed; the run
\* resolves with no delay after the last item.
C6_SequentialWithDelay ==
    /\ inFlight <= 1
    /\ \A k \in 2..Len(itemLog) :
          /\ itemLog[k - 1].end >= 0
          /\ itemLog[k].start >= itemLog[k - 1].end + requestDelay
    /\ (batchPc = "done" /\ batchSettled = "resolved") =>
          clock = itemLog[Len(itemLog)].end

----------------------------------------------------------------------------
(* Strings of the fetch services: sequences of one-character strings *)

UpperCaseLetters ==
    <<"A", "B", "C", "D", "E", "F", "G", "H", "I", "J", "K", "L", "M",
      "N", "O", "P", "Q", "R", "S", "T", "U", "V", "W", "X", "Y", "Z">>

LowerCaseLetters ==
    <<"a", "b", "c", "d", "e", "f", "g", "h", "i", "j", "k", "l", "m",
      "n", "o", "p", "q", "r", "s", "t", "u", "v", "w", "x", "y", "z">>

\* String.prototype.toLowerCase
toLowerCase(str) ==
    [i \in 1..Len(str) |->
        IF \E k \in 1..Len(UpperCaseLetters) : UpperCaseLetters[k] = str[i]
        THEN LowerCaseLetters[CHOOSE k \in 1..Len(UpperCaseLetters) :
                                  UpperCaseLetters[k] = str[i]]
        ELSE str[i]]

RECURSIVE trimStart(_)
trimStart(str) ==
    IF str # <<>> /\ Head(str) = " " THEN trimStart(Tail(str)) ELSE str

RECURSIVE trimEnd(_)
trimEnd(str) ==
    IF str # <<>> /\ str[Len(str)] = " "
    THEN trimEnd(SubSeq(str, 1, Len(str) - 1))
    ELSE str

\* String.prototype.trim
trim(str) == trimEnd(trimStart(str))

\* a || b, on strings: the empty string is falsy, as is an absent field
Or(a, b) == IF a # <<>> THEN a ELSE b

\* a || b, on identifiers
OrId(a, b) == IF a # "" THEN a ELSE b

UntitledTender ==
    <<"U", "n", "t", "i", "t", "l", "e", "d", " ", "T", "e", "n", "d", "e", "r">>

UnknownOrganization ==
    <<"U", "n", "k", "n", "o", "w", "n", " ",
      "O", "r", "g", "a", "n", "i", "z", "a", "t", "i", "o", "n">>

----------------------------------------------------------------------------
(* The caches of the fetch services *)

\* claudeAnalyzer.js, OCDS JSON service: CONFIG
OCDS_CACHE_DURATION == 15 * 60 * 1000
MAX_RETRIES == 2

\* claudeAnalyzer.js, OCDS CSV service: fetchAndProcessTenders
CSV_CACHE_DURATION == 15 * 60 * 1000

\* part_002: CONFIG
CF_CACHE_DURATION == 5 * 60 * 1000

\* sessionStorage.getItem(key) === null
NoEntry == [present |-> FALSE, timestamp |-> 0, data |-> <<>>]

\* a variant of isCacheValid that counts an entry as old as the window valid
isCacheValid_inclusive(entry, now, CACHE_DURATION) ==
    IF ~entry.present THEN FALSE
    ELSE now - entry.timestamp <= CACHE_DURATION

\* isCacheValid, for the entry under the key and the window of the service
isCacheValid(entry, now, CACHE_DURATION) ==
    IF ~entry.present THEN FALSE
    ELSE now - entry.timestamp < CACHE_DURATION

getCachedData(entry) == entry.data

\* the entry setCachedData stores
setCachedData(data, now) ==
    [present |-> TRUE, timestamp |-> now, data |-> data]

----------------------------------------------------------------------------
(* Normalization of raw records into tenders *)

\* the tender parseOCDSResponse builds for a release at position index
\* (from 0) of the releases that have tender data
OCDSTender(release, index, now) ==
    [id |-> OrId(release.ocid,
                 OrId(release.id,
                      "OCDS-" \o ToString(now) \o "-" \o ToString(index))),
     title |-> Or(release.title, UntitledTender),
     organization |-> Or(release.buyerName, UnknownOrganization),
     status |-> "new",
     source |-> "Contracts Finder (OCDS)",
     ocid |-> release.ocid]

\* parseOCDSResponse(data, params), evaluated at Date.now() = now
parseOCDSResponse(data, now) ==
    LET withTender == SelectSeq(data.releases, LAMBDA release : release.hasTender)
    IN  IF data.releases = <<>> THEN <<>>
        ELSE IF withTender = <<>> THEN <<>>
        ELSE [k \in 1..Len(withTender) |-> OCDSTender(withTender[k], k - 1, now)]

\* the columns parseOCDSCSV reads
TitleColumn0 == "releases/0/tender/title"
TitleColumn1 == "tender/title"
BuyerColumn0 == "releases/0/buyer/name"
BuyerColumn1 == "buyer/name"

\* the loop of parseOCDSCSV over the data rows, from row i on
RECURSIVE parseOCDSCSVRows(_, _)
parseOCDSCSVRows(lines, i) ==
    IF i > Len(lines) THEN <<>>
    ELSE
        LET row == lines[i]
            title == Or(row[TitleColumn0], Or(row[TitleColumn1], UntitledTender))
            buyerName == Or(row[BuyerColumn0],
                            Or(row[BuyerColumn1], UnknownOrganization))
            ocid == OrId(row["ocid"], "tender-" \o ToString(i))
        IN  IF title = <<>> \/ title = UntitledTender
            THEN parseOCDSCSVRows(lines, i + 1)
            ELSE <<[id |-> ocid,
                    title |-> title,
                    organization |-> buyerName,
                    status |-> "new",
                    source |-> "Contracts Finder (OCDS CSV)",
                    sirona_fit |-> Null]>>
                 \o parseOCDSCSVRows(lines, i + 1)

\* parseOCDSCSV(csvText), the text given as its data rows after the header
parseOCDSCSV(csvText) ==
    IF csvText.rows = <<>> THEN <<>> ELSE parseOCDSCSVRows(csvText.rows, 1)

\* parseContractsFinderData(data), evaluated at Date.now() = now
parseContractsFinderData(data, now) ==
    IF data = <<>> THEN <<>>
    ELSE [k \in 1..Len(data) |->
            [id |-> OrId(data[k].ocid,
                         OrId(data[k].id,
                              "CF-" \o ToString(now) \o "-" \o ToString(k - 1))),
             title |-> Or(data[k].title, Or(data[k].name, UntitledTender)),
             organization |-> Or(data[k].buyerName, UnknownOrganization),
             status |-> "new",
             source |-> "Contracts Finder"]]

\* parseFindATenderData(data), evaluated at Date.now() = now
parseFindATenderData(data, now) ==
    IF data = <<>> THEN <<>>
    ELSE [k \in 1..Len(data) |->
            [id |-> OrId(data[k].ocid,
                         OrId(data[k].id,
                              "FTS-" \o ToString(now) \o "-" \o ToString(k - 1))),
             title |-> Or(data[k].title, UntitledTender),
             organization |-> Or(data[k].buyerName, UnknownOrganization),
             status |-> "new",
             source |-> "Find a Tender"]]

\* applyFilters(tenders, params) with no criterion set in params
applyFilters(tenders) == tenders

\* the random draws of enrichTenderWithAI: a score in 60..89 and one of the
\* four recommendations
PlaceholderDraws ==
    { [alignment_score |-> 60, recommendation |-> "Strong Go"],
      [alignment_score |-> 89, recommendation |-> "No Bid"] }

\* enrichTenderWithAI(tender), with the given draw
enrichTenderWithAI(t, draw) ==
    Spread(t, [sirona_fit |->
                  [alignment_score |-> draw.alignment_score,
                   recommendation |-> draw.recommendation,
                   rationale |-> <<"This tender requires AI analysis">>]])

\* tenders.map(t => enrichTenderWithAI(t)); one draw stands for the draws
\* of all the tenders of a list
enrichAll(tenders, draw) ==
    IF tenders = <<>> THEN <<>>
    ELSE [k \in 1..Len(tenders) |-> enrichTenderWithAI(tenders[k], draw)]

----------------------------------------------------------------------------
(* Deduplication *)

\* a variant of the loop below that keeps the last tender of each id
RECURSIVE removeDuplicatesByOcid_keepLast(_, _)
removeDuplicatesByOcid_keepLast(allTenders, seenOcids) ==
    IF allTenders = <<>> THEN <<>>
    ELSE
        LET rest == Tail(allTenders)
        IN  IF \E k \in 1..Len(rest) : rest[k].id = Head(allTenders).id
            THEN removeDuplicatesByOcid_keepLast(rest, seenOcids)
            ELSE <<Head(allTenders)>>
                 \o removeDuplicatesByOcid_keepLast(rest, seenOcids)

\* the CSV service's loop "Remove duplicates by OCID": uniqueTenders for
\* the rest of allTenders, given the ids seen so far
RECURSIVE removeDuplicatesByOcid(_, _)
removeDuplicatesByOcid(allTenders, seenOcids) ==
    IF allTenders = <<>> THEN <<>>
    ELSE IF Head(allTenders).id \notin seenOcids
         THEN <<Head(allTenders)>>
              \o removeDuplicatesByOcid(Tail(allTenders),
                                        seenOcids \cup {Head(allTenders).id})
         ELSE removeDuplicatesByOcid(Tail(allTenders), seenOcids)

\* the key of mergeTenderData
mergeKey(t) ==
    trim(toLowerCase(t.title)) \o <<"|">> \o trim(toLowerCase(t.organization))

\* the loop of mergeTenderData
RECURSIVE mergeLoop(_, _)
mergeLoop(allTenders, seen) ==
    IF allTenders = <<>> THEN <<>>
    ELSE IF mergeKey(Head(allTenders)) \notin seen
         THEN <<Head(allTenders)>>
              \o mergeLoop(Tail(allTenders), seen \cup {mergeKey(Head(allTenders))})
         ELSE mergeLoop(Tail(allTenders), seen)

mergeTenderData(contractsFinderData, findATenderData) ==
    mergeLoop(contractsFinderData \o findATenderData, {})

----------------------------------------------------------------------------
(* The fetch functions of the three services *)

\* the data sources a service fetches from; each has its own cache key
Sources(p) ==
    CASE p = "ocds"  -> {"ocds"}
      [] p = "csv"   -> {"csv"}
      [] p = "merge" -> {"cf", "fts"}
      [] OTHER       -> {}

\* the freshness window of the cache of a source
CacheDuration(s) ==
    CASE s = "ocds" -> OCDS_CACHE_DURATION
      [] s = "csv"  -> CSV_CACHE_DURATION
      [] OTHER      -> CF_CACHE_DURATION

\* a fetch function call that has not read its cache yet
NoRead == [present |-> FALSE, age |-> 0, hit |-> FALSE]

IdleCall ==
    [pc |-> "idle", now |-> 0, read |-> NoRead, requests |-> 0,
     retryCount |-> 0, retryAt |-> 0, out |-> <<>>, fromCache |-> FALSE]

\* what a call saw in sessionStorage when it read the entry at time now
CacheRead(entry, now, hit) ==
    [present |-> entry.present,
     age |-> IF entry.present THEN now - entry.timestamp ELSE 0,
     hit |-> hit]

\* fetchOCDSTenders(params, retryCount), fetchContractsFinderTenders(params)
\* and fetchFindATenderData(params), from the call to the first await
fetchFromSource(s, entry, now, retryCount, requests) ==
    IF isCacheValid(entry, now, CacheDuration(s))
    THEN [pc |-> "settled", now |-> now, read |-> CacheRead(entry, now, TRUE),
          requests |-> requests, retryCount |-> retryCount, retryAt |-> 0,
          out |-> getCachedData(entry), fromCache |-> TRUE]
    ELSE [pc |-> "awaiting", now |-> now, read |-> CacheRead(entry, now, FALSE),
          requests |-> requests + 1, retryCount |-> retryCount, retryAt |-> 0,
          out |-> <<>>, fromCache |-> FALSE]

\* fetchAndProcessTenders of the CSV service, from the call to the first
\* await: the cached list is used when its timestamp is fresh and the list
\* is not empty
fetchFromCSV(entry, now) ==
    LET fresh == entry.present /\ (now - entry.timestamp) < CSV_CACHE_DURATION
        allTenders == IF fresh THEN entry.data ELSE <<>>
    IN  IF Len(allTenders) = 0
        THEN [pc |-> "awaiting", now |-> now,
              read |-> CacheRead(entry, now, FALSE),
              requests |-> 1, retryCount |-> 0, retryAt |-> 0,
              out |-> <<>>, fromCache |-> FALSE]
        ELSE [pc |-> "settled", now |-> now,
              read |-> CacheRead(entry, now, TRUE),
              requests |-> 0, retryCount |-> 0, retryAt |-> 0,
              out |-> applyFilters(allTenders), fromCache |-> TRUE]

\* a fetch function enters: its cache is read at time now
Enter(s, entry, now, retryCount, requests) ==
    IF s = "csv" THEN fetchFromCSV(entry, now)
    ELSE fetchFromSource(s, entry, now, retryCount, requests)

\* allTenders after the download loop of the CSV service
RECURSIVE parseFiles(_)
parseFiles(csvTexts) ==
    IF csvTexts = <<>> THEN <<>>
    ELSE (IF Head(csvTexts).missing THEN <<>> ELSE parseOCDSCSV(Head(csvTexts)))
         \o parseFiles(Tail(csvTexts))

\* the list a source's parser makes of the answer
Parsed(s, data, now) ==
    CASE s = "ocds" -> applyFilters(parseOCDSResponse(data, now))
      [] s = "cf"   -> parseContractsFinderData(data, now)
      [] OTHER      -> parseFindATenderData(data, now)

\* a variant of AfterResponse below that retries once more
AfterResponse_retryOnceMore(s, c, entry, ok, data, now, draw) ==
    IF s = "csv"
    THEN LET csvTexts == IF ok THEN data
                        ELSE [k \in 1..Len(data) |-> [missing |-> TRUE, rows |-> <<>>]]
             allTenders == enrichAll(removeDuplicatesByOcid(parseFiles(csvTexts), {}),
                                     draw)
         IN  [call |-> [c EXCEPT !.pc = "settled", !.out = applyFilters(allTenders)],
              entry |-> setCachedData(allTenders, c.now)]
    ELSE IF ok
    THEN LET tenders == Parsed(s, data, now)
         IN  [call |-> [c EXCEPT !.pc = "settled", !.out = tenders],
              entry |-> setCachedData(tenders, now)]
    ELSE IF s = "ocds" /\ c.retryCount <= MAX_RETRIES
    THEN [call |-> [c EXCEPT !.pc = "retryWait",
                             !.retryAt = now + 1000 * (c.retryCount + 1)],
          entry |-> entry]
    ELSE [call |-> [c EXCEPT !.pc = "settled", !.out = <<>>], entry |-> entry]

\* the call of source s after its request settled with the answer data
\* (ok) or with a failure: [call, entry]
AfterResponse(s, c, entry, ok, data, now, draw) ==
    IF s = "csv"
    THEN LET csvTexts == IF ok THEN data
                        ELSE [k \in 1..Len(data) |-> [missing |-> TRUE, rows |-> <<>>]]
             allTenders == enrichAll(removeDuplicatesByOcid(parseFiles(csvTexts), {}),
                                     draw)
         IN  [call |-> [c EXCEPT !.pc = "settled", !.out = applyFilters(allTenders)],
              entry |-> setCachedData(allTenders, c.now)]
    ELSE IF ok
    THEN LET tenders == Parsed(s, data, now)
         IN  [call |-> [c EXCEPT !.pc = "settled", !.out = tenders],
              entry |-> setCachedData(tenders, now)]
    ELSE IF s = "ocds" /\ c.retryCount < MAX_RETRIES
    THEN [call |-> [c EXCEPT !.pc = "retryWait",
                             !.retryAt = now + 1000 * (c.retryCount + 1)],
          entry |-> entry]
    ELSE [call |-> [c EXCEPT !.pc = "settled", !.out = <<>>], entry |-> entry]

\* what fetchAndProcessTenders returns once its fetch functions have settled
fetchAndProcessTenders(p, calls, draw) ==
    CASE p = "ocds" ->
            IF Len(calls["ocds"].out) = 0 THEN <<>>
            ELSE enrichAll(calls["ocds"].out, draw)
      [] p = "csv" -> calls["csv"].out
      [] OTHER ->
            enrichAll(mergeTenderData(calls["cf"].out, calls["fts"].out), draw)

----------------------------------------------------------------------------
(* Inputs of the fetch pipelines *)

MaxReleases   == 2         \* releases in an OCDS answer
MaxRows       == 1         \* data rows in a CSV day-file
MaxNotices    == 1         \* notices in an answer of each merged source
MaxFetches    == 2         \* fetches in a run
FetchTickMs   == 300000    \* the clock advances in steps of FetchTickMs
MaxFetchClock == 1200000   \* the clock stops here

\* the CSV service downloads 30 day-files; the model has two of them
DaysBack == 2

SeqUpTo(S, n) == UNION { [1..k -> S] : k \in 0..n }

NoText     == <<>>
Care       == <<"C", "a", "r", "e">>
CareLower  == <<"c", "a", "r", "e">>
CarePadded == <<" ", "c", "a", "r", "e", " ">>
Lab        == <<"L", "a", "b">>
NHS        == <<"N", "H", "S">>
NHSLower   == <<"n", "h", "s">>

Release(ocid, id, hasTender, title, buyerName) ==
    [ocid |-> ocid, id |-> id, hasTender |-> hasTender, title |-> title,
     buyerName |-> buyerName]

\* releases: two of one ocid with titles that differ in case, one without
\* a title, one without any identifier, one without tender data
Releases ==
    { Release("ocds-1", "r1", TRUE, Care, NHS),
      Release("ocds-1", "r2", TRUE, CareLower, NHS),
      Release("ocds-2", "r3", TRUE, NoText, NHS),
      Release("", "", TRUE, Lab, NoText),
      Release("ocds-3", "r5", FALSE, NoText, NoText) }

Row(ocid, title0, title1, buyerName) ==
    [c \in {"ocid", TitleColumn0, TitleColumn1, BuyerColumn0, BuyerColumn1} |->
        CASE c = "ocid"       -> ocid
          [] c = TitleColumn0 -> title0
          [] c = TitleColumn1 -> title1
          [] c = BuyerColumn0 -> buyerName
          [] OTHER            -> NoText]

\* rows: two of one ocid with the title under either column and in either
\* case, one without a title, two without an ocid
Rows ==
    { Row("ocds-1", Care, NoText, NHS),
      Row("ocds-1", NoText, CareLower, NHS),
      Row("ocds-2", NoText, NoText, NHS),
      Row("", Lab, NoText, NoText),
      Row("", NHS, NoText, Care) }

\* a day-file: not there (404, 403, any failure), or its data rows
CsvFiles ==
    { [missing |-> TRUE, rows |-> <<>>] }
    \cup { [missing |-> FALSE, rows |-> r] : r \in SeqUpTo(Rows, MaxRows) }

Notice(ocid, id, title, name, buyerName) ==
    [ocid |-> ocid, id |-> id, title |-> title, name |-> name,
     buyerName |-> buyerName]

\* notices: two of one ocid, two of one title and organization up to case
\* and surrounding blanks, one with neither title nor name
Notices ==
    { Notice("ocds-1", "n1", Care, NoText, NHS),
      Notice("ocds-1", "n2", Lab, NoText, NHS),
      Notice("ocds-2", "n3", NoText, CarePadded, NHSLower),
      Notice("", "", NoText, NoText, NoText) }

\* what the sources of a service answer with, when they answer
Remotes(p) ==
    CASE p = "ocds" ->
            { [s \in {"ocds"} |-> [releases |-> r]] :
                 r \in SeqUpTo(Releases, MaxReleases) }
      [] p = "csv" ->
            { [s \in {"csv"} |-> files] : files \in [1..DaysBack -> CsvFiles] }
      [] OTHER ->
            { [s \in {"cf", "fts"} |-> IF s = "cf" THEN a ELSE b] :
                 a \in SeqUpTo(Notices, MaxNotices),
                 b \in SeqUpTo(Notices, MaxNotices) }

----------------------------------------------------------------------------
(* Actions of the fetch pipelines *)

AllSettled(calls) == \A s \in DOMAIN calls : calls[s].pc = "settled"

\* the fetch functions are in the states calls: fetchAndProcessTenders
\* returns when all of them have settled
Proceed(calls, draw) ==
    /\ call' = calls
    /\ IF AllSettled(calls)
       THEN /\ working' = fetchAndProcessTenders(pipeline, calls, draw)
            /\ fetchPc' = "done"
       ELSE /\ fetchPc' = "running"
            /\ UNCHANGED working

\* fetchAndProcessTenders(searchParams) is called
FetchCall ==
    /\ fetchPc \in {"idle", "done"}
    /\ fetches < MaxFetches
    /\ fetches' = fetches + 1
    /\ \E draw \in PlaceholderDraws :
          Proceed([s \in Sources(pipeline) |-> Enter(s, storage[s], clock, 0, 0)],
                  draw)
    /\ UNCHANGED <<envVars, pipeline, remote, storage, notFetch>>

\* the request of source s settles: with the source's answer, or with a
\* failure (network error, status outside 2xx, a body that is not JSON)
SourceResponds ==
    /\ fetchPc = "running"
    /\ \E s \in Sources(pipeline), ok \in BOOLEAN, draw \in PlaceholderDraws :
          /\ call[s].pc = "awaiting"
          /\ LET after == AfterResponse(s, call[s], storage[s], ok, remote[s],
                                        clock, draw)
             IN  /\ storage' = [storage EXCEPT ![s] = after.entry]
                 /\ Proceed([call EXCEPT ![s] = after.call], draw)
    /\ UNCHANGED <<envVars, pipeline, remote, fetches, notFetch>>

\* the retry timer of fetchOCDSTenders fires and the function calls itself
RetryTimerFires ==
    /\ fetchPc = "running"
    /\ pipeline = "ocds"
    /\ call["ocds"].pc = "retryWait"
    /\ LET c == call["ocds"]
           now == IF clock < c.retryAt THEN c.retryAt ELSE clock
       IN  /\ clock' = now
           /\ \E draw \in PlaceholderDraws :
                 Proceed([call EXCEPT !["ocds"] =
                             Enter("ocds", storage["ocds"], now,
                                   c.retryCount + 1, c.requests)],
                         draw)
    /\ UNCHANGED <<apiKey, today, apiCalls, inFlight, pipeline, remote, storage,
                   fetches, notFetch>>

\* time passes
FetchTick ==
    /\ fetchPc # "off"
    /\ clock + FetchTickMs <= MaxFetchClock
    /\ clock' = clock + FetchTickMs
    /\ UNCHANGED <<apiKey, today, apiCalls, inFlight, fetchVars, notFetch>>

FetchRunning ==
    /\ pipeline \in {"ocds", "csv", "merge"}
    /\ remote \in Remotes(pipeline)
    /\ storage = [s \in Sources(pipeline) |-> NoEntry]
    /\ fetchPc = "idle"
    /\ call = [s \in Sources(pipeline) |-> IdleCall]
    /\ working = <<>>
    /\ fetches = 0

InitFetch ==
    /\ apiKey = FALSE
    /\ today = 1
    /\ clock = 0
    /\ apiCalls = 0
    /\ inFlight = 0
    /\ EnrichIdle
    /\ BatchIdle
    /\ FetchRunning
    /\ DedupeIdle
    /\ RestIdle

NextFetch == FetchCall \/ SourceResponds \/ RetryTimerFires \/ FetchTick

SpecFetch == InitFetch /\ [][NextFetch]_vars

\* the same services, with answers of at most one record per source
CacheRemotes(p) ==
    CASE p = "ocds" ->
            { [s \in {"ocds"} |-> [releases |-> r]] :
                 r \in SeqUpTo({Release("ocds-1", "r1", TRUE, Care, NHS)}, 1) }
      [] p = "csv" ->
            { [s \in {"csv"} |->
                  [k \in 1..DaysBack |->
                      IF k = 1 THEN f ELSE [missing |-> TRUE, rows |-> <<>>]]] :
                 f \in { [missing |-> TRUE, rows |-> <<>>],
                         [missing |-> FALSE,
                          rows |-> <<Row("ocds-1", Care, NoText, NHS)>>] } }
      [] OTHER ->
            { [s \in {"cf", "fts"} |-> IF s = "cf" THEN a ELSE b] :
                 a \in SeqUpTo({Notice("ocds-1", "n1", Care, NoText, NHS)}, 1),
                 b \in SeqUpTo({Notice("ocds-2", "n3", Lab, NoText, NHS)}, 1) }

CacheRunning ==
    /\ pipeline \in {"ocds", "csv", "merge"}
    /\ remote \in CacheRemotes(pipeline)
    /\ storage = [s \in Sources(pipeline) |-> NoEntry]
    /\ fetchPc = "idle"
    /\ call = [s \in Sources(pipeline) |-> IdleCall]
    /\ working = <<>>
    /\ fetches = 0

InitCache ==
    /\ apiKey = FALSE
    /\ today = 1
    /\ clock = 0
    /\ apiCalls = 0
    /\ inFlight = 0
    /\ EnrichIdle
    /\ BatchIdle
    /\ CacheRunning
    /\ DedupeIdle
    /\ RestIdle

SpecCache == InitCache /\ [][NextFetch]_vars

----------------------------------------------------------------------------
(* Claims about the fetch pipelines *)

\* C7: a cache entry whose age has reached the freshness window is never
\* served: every read that serves from the cache found an entry younger
\* than the window of its service, what is served is that entry, and every
\* read that found no entry or too old an entry was followed by a request.
C7_StaleEntryNeverServed ==
    fetchPc \in {"running", "done"} =>
        \A s \in Sources(pipeline) :
            /\ call[s].read.hit =>
                  /\ call[s].read.present
                  /\ call[s].read.age < CacheDuration(s)
                  /\ call[s].requests = call[s].retryCount
            /\ call[s].fromCache =>
                  /\ call[s].read.hit
                  /\ call[s].out = storage[s].data
            /\ ~call[s].read.hit =>
                  /\ ~call[s].fromCache
                  /\ call[s].requests = call[s].retryCount + 1

\* a fetch found an entry as old as the window or older, and went to the
\* network
C7_Witness ==
    /\ fetchPc \in {"running", "done"}
    /\ \E s \in Sources(pipeline) :
          /\ call[s].read.present
          /\ call[s].read.age >= CacheDuration(s)
          /\ ~call[s].read.hit
          /\ call[s].requests >= 1

\* C8: the list a fetch returns holds no two tenders with the same id.
C8_WorkingSetIdsUnique ==
    fetchPc = "done" =>
        \A i, j \in 1..Len(working) :
            i # j => working[i].id # working[j].id

\* the titles the raw records of the answers carry, under any alias their
\* parser knows
SourceTitles ==
    CASE pipeline = "ocds" ->
            { remote["ocds"].releases[k].title :
                 k \in 1..Len(remote["ocds"].releases) }
      [] pipeline = "csv" ->
            UNION { { Or(remote["csv"][f].rows[k][TitleColumn0],
                         remote["csv"][f].rows[k][TitleColumn1]) :
                         k \in 1..Len(remote["csv"][f].rows) } :
                    f \in 1..Len(remote["csv"]) }
      [] OTHER ->
            { Or(remote["cf"][k].title, remote["cf"][k].name) :
                 k \in 1..Len(remote["cf"]) }
            \cup { remote["fts"][k].title : k \in 1..Len(remote["fts"]) }

\* C10: a raw record without a title under any alias adds no tender: every
\* tender of a fetched list carries a title of a raw record of the answer.
C10_UntitledRecordsAddNoTender ==
    fetchPc = "done" =>
        \A k \in 1..Len(working) :
            working[k].title \in SourceTitles \ {NoText}

\* the identifiers the raw records of the answers carry
ExternalIds ==
    CASE pipeline = "ocds" ->
            UNION { { remote["ocds"].releases[k].ocid, remote["ocds"].releases[k].id } :
                    k \in 1..Len(remote["ocds"].releases) }
      [] pipeline = "csv" ->
            UNION { { remote["csv"][f].rows[k]["ocid"] :
                         k \in 1..Len(remote["csv"][f].rows) } :
                    f \in 1..Len(remote["csv"]) }
      [] OTHER -> {}

\* the raw records of the answers that have no identifier and that their
\* parser makes a tender of
RecordsWithoutId ==
    CASE pipeline = "ocds" ->
            { <<1, k>> : k \in { j \in 1..Len(remote["ocds"].releases) :
                                   /\ remote["ocds"].releases[j].hasTender
                                   /\ remote["ocds"].releases[j].ocid = ""
                                   /\ remote["ocds"].releases[j].id = "" } }
      [] pipeline = "csv" ->
            UNION { { <<f, k>> : k \in { j \in 1..Len(remote["csv"][f].rows) :
                          /\ ~remote["csv"][f].missing
                          /\ remote["csv"][f].rows[j]["ocid"] = ""
                          /\ Or(remote["csv"][f].rows[j][TitleColumn0],
                                remote["csv"][f].rows[j][TitleColumn1]) # NoText } } :
                    f \in 1..Len(remote["csv"]) }
      [] OTHER -> {}

\* the tenders of the fetched list whose id was synthesized
SynthesizedIn(tenders) ==
    { k \in 1..Len(tenders) : tenders[k].id \notin ExternalIds }

\* C22: the ids synthesized for records without an identifier are unique
\* within a fetch, across the day-files of the CSV service too: the fetched
\* list holds one tender with a synthesized id for each such record, none is
\* removed by the deduplication by id, and no two of them share an id.
C22_SynthesizedIdsUnique ==
    (fetchPc = "done" /\ pipeline \in {"ocds", "csv"} /\ working # <<>>) =>
        /\ Cardinality(SynthesizedIn(working)) = Cardinality(RecordsWithoutId)
        /\ \A i, j \in SynthesizedIn(working) :
               i # j => working[i].id # working[j].id

----------------------------------------------------------------------------
(* Deduplication as a function of its input *)

MaxList == 3    \* tenders in an input list

\* tenders of two ids, with titles and organizations that differ in case
\* and in surrounding blanks only
DedupeTenders ==
    { [id |-> i, title |-> t, organization |-> o] :
         i \in {"ocds-1", "ocds-2"},
         t \in {Care, CareLower, CarePadded},
         o \in {NHS, NHSLower} }

\* the CSV service removes the duplicates of allTenders
DedupeById ==
    /\ dedupeKey = "id"
    /\ dedupePc \in {"input", "once"}
    /\ IF dedupePc = "input"
       THEN /\ ys' = removeDuplicatesByOcid(xs, {})
            /\ dedupePc' = "once"
            /\ UNCHANGED zs
       ELSE /\ zs' = removeDuplicatesByOcid(ys, {})
            /\ dedupePc' = "twice"
            /\ UNCHANGED ys
    /\ UNCHANGED <<dedupeKey, xs, notDedupe>>

\* mergeTenderData is applied to the list, split between its two arguments
DedupeByMerge ==
    /\ dedupeKey = "title_org"
    /\ dedupePc \in {"input", "once"}
    /\ IF dedupePc = "input"
       THEN /\ \E k \in 0..Len(xs) :
                  ys' = mergeTenderData(SubSeq(xs, 1, k), SubSeq(xs, k + 1, Len(xs)))
            /\ dedupePc' = "once"
            /\ UNCHANGED zs
       ELSE /\ \E k \in 0..Len(ys) :
                  zs' = mergeTenderData(SubSeq(ys, 1, k), SubSeq(ys, k + 1, Len(ys)))
            /\ dedupePc' = "twice"
            /\ UNCHANGED ys
    /\ UNCHANGED <<dedupeKey, xs, notDedupe>>

DedupeRunning ==
    /\ dedupeKey \in {"id", "title_org"}
    /\ dedupePc = "input"
    /\ xs \in SeqUpTo(DedupeTenders, MaxList)
    /\ ys = <<>>
    /\ zs = <<>>

InitDedupe ==
    /\ apiKey = FALSE
    /\ today = 1
    /\ clock = 0
    /\ apiCalls = 0
    /\ inFlight = 0
    /\ EnrichIdle
    /\ BatchIdle
    /\ FetchIdle
    /\ DedupeRunning
    /\ RestIdle

NextDedupe == DedupeById \/ DedupeByMerge

SpecDedupe == InitDedupe /\ [][NextDedupe]_vars

----------------------------------------------------------------------------
(* Claims about deduplication *)

\* the key two tenders are duplicates by: the id, or the pair of title and
\* organization, each lowercased and without surrounding blanks
SameKey(a, b) ==
    IF dedupeKey = "id" THEN a.id = b.id
    ELSE /\ trim(toLowerCase(a.title)) = trim(toLowerCase(b.title))
         /\ trim(toLowerCase(a.organization)) = trim(toLowerCase(b.organization))

\* the positions of a list that hold the first tender of their key
FirstOccurrences(l) ==
    { i \in 1..Len(l) : \A j \in 1..(i - 1) : ~SameKey(l[j], l[i]) }

\* the tenders of l at the positions I, in the order of l
RECURSIVE KeepAt(_, _, _)
KeepAt(l, I, i) ==
    IF i > Len(l) THEN <<>>
    ELSE (IF i \in I THEN <<l[i]>> ELSE <<>>) \o KeepAt(l, I, i + 1)

\* C9: deduplication keeps exactly the first tender of each key, in the
\* order of the input, and applying it again changes nothing, for the id
\* key of the CSV service and for the title and organization key of
\* mergeTenderData.
C9_DedupeFirstStableIdempotent ==
    /\ dedupePc \in {"once", "twice"} => ys = KeepAt(xs, FirstOccurrences(xs), 1)
    /\ dedupePc = "twice" => zs = ys

\* two tenders of one id whose titles differ in case were deduplicated by
\* id, twice, and one tender is left
C9_Witness ==
    /\ dedupePc = "twice"
    /\ dedupeKey = "id"
    /\ Len(xs) = 2
    /\ xs[1].id = xs[2].id
    /\ xs[1].title = Care /\ xs[2].title = CareLower
    /\ Len(ys) = 1

----------------------------------------------------------------------------
(* JavaScript numbers and the values of raw fields *)

\* a number: finite (an integer here), NaN or Infinity
Num(n)   == [kind |-> "finite", n |-> n]
NaN      == [kind |-> "NaN", n |-> 0]
Infinity == [kind |-> "Infinity", n |-> 0]

\* the value of a raw field: undefined (absent), a number, a string, or an
\* object with an amount
Undefined       == [type |-> "undefined"]
NumberValue(x)  == [type |-> "number", num |-> x]
StringValue(t)  == [type |-> "string", text |-> t]
AmountObject(a) == [type |-> "object", amount |-> a]

\* ToBoolean
Truthy(v) ==
    CASE v.type = "undefined" -> FALSE
      [] v.type = "number"    -> v.num.kind = "Infinity"
                                 \/ (v.num.kind = "finite" /\ v.num.n # 0)
      [] v.type = "string"    -> v.text # <<>>
      [] OTHER                -> TRUE

\* a || b
OrValue(a, b) == IF Truthy(a) THEN a ELSE b

\* x || y, on numbers
OrNum(x, y) == IF Truthy(NumberValue(x)) THEN x ELSE y

\* v.amount
Amount(v) == IF v.type = "object" THEN v.amount ELSE Undefined

Digits == <<"0", "1", "2", "3", "4", "5", "6", "7", "8", "9">>

IsDigit(c) == \E d \in 1..Len(Digits) : Digits[d] = c

DigitValue(c) == (CHOOSE d \in 1..Len(Digits) : Digits[d] = c) - 1

\* the leading digits of str: [n, count], n the number they spell after acc
RECURSIVE ReadDigits(_, _, _)
ReadDigits(str, acc, count) ==
    IF str # <<>> /\ IsDigit(Head(str))
    THEN ReadDigits(Tail(str), acc * 10 + DigitValue(Head(str)), count + 1)
    ELSE [n |-> acc, count |-> count]

InfinityText == <<"I", "n", "f", "i", "n", "i", "t", "y">>

IsPrefix(pre, str) ==
    Len(pre) <= Len(str) /\ SubSeq(str, 1, Len(pre)) = pre

\* parseFloat(text), for texts without a decimal point or an exponent:
\* blanks, a sign, then Infinity or the longest run of digits
parseFloatText(text) ==
    LET str == trimStart(text)
        signed == str # <<>> /\ Head(str) \in {"-", "+"}
        body == IF signed THEN Tail(str) ELSE str
        read == ReadDigits(body, 0, 0)
    IN  IF IsPrefix(InfinityText, body) THEN Infinity
        ELSE IF read.count = 0 THEN NaN
        ELSE IF signed /\ Head(str) = "-" THEN Num(0 - read.n)
        ELSE Num(read.n)

\* parseFloat(v): a number is converted to its text and read back
parseFloat(v) ==
    CASE v.type = "number" -> v.num
      [] v.type = "string" -> parseFloatText(v.text)
      [] OTHER             -> NaN

----------------------------------------------------------------------------
(* The value of a tender *)

\* extractValue(tender), OCDS JSON service
extractValue(t) ==
    IF Truthy(t.value) /\ Truthy(Amount(t.value))
    THEN OrNum(parseFloat(Amount(t.value)), Num(0))
    ELSE IF Truthy(t.minValue) /\ Truthy(Amount(t.minValue))
    THEN OrNum(parseFloat(Amount(t.minValue)), Num(0))
    ELSE IF Truthy(t.estimatedValue) /\ Truthy(Amount(t.estimatedValue))
    THEN OrNum(parseFloat(Amount(t.estimatedValue)), Num(0))
    ELSE Num(100000)

AmountColumn0 == "releases/0/tender/value/amount"
AmountColumn1 == "tender/value/amount"

\* the value parseOCDSCSV gives the tender of a row
csvValue(row) ==
    LET valueAmount == Or(row[AmountColumn0], Or(row[AmountColumn1], <<"0">>))
    IN  OrNum(parseFloatText(valueAmount), Num(100000))

\* value.replace(/[...]/g, ""): the characters of the class removed; the
\* two that are not ASCII are written A_CIRCUMFLEX and POUND
RemoveCurrency(text) ==
    SelectSeq(text, LAMBDA c : c \notin {"A_CIRCUMFLEX", "POUND", "$", ","})

\* parseValue(value), part_002
parseValue(value) ==
    IF value.type = "number" THEN value.num
    ELSE IF value.type = "string"
    THEN LET parsed == parseFloatText(RemoveCurrency(value.text))
         IN  IF parsed.kind = "NaN" THEN Num(0) ELSE parsed
    ELSE IF Truthy(Amount(value)) THEN parseFloat(Amount(value))
    ELSE Num(0)

\* the value parseContractsFinderData gives the tender of a notice
cfValue(notice) ==
    parseValue(OrValue(notice.value, OrValue(notice.minValue, notice.estimatedValue)))

\* the value parseFindATenderData gives the tender of a notice
ftsValue(notice) ==
    parseValue(OrValue(notice.value, notice.estimatedValue))

----------------------------------------------------------------------------
(* The deadline of a tender; times are in hours *)

\* a date field: absent (or the empty string), a string that new Date()
\* reads as the time given, or a string that it reads as an invalid date
AbsentDate  == [form |-> "absent", time |-> 0]
IsoDate(t)  == [form |-> "iso", time |-> t]
InvalidDate == [form |-> "text", time |-> 0]

\* a || b, on date fields
OrDate(a, b) == IF a.form # "absent" THEN a ELSE b

\* new Date(d)
NewDate(d) ==
    IF d.form = "iso" THEN [valid |-> TRUE, time |-> d.time]
    ELSE [valid |-> FALSE, time |-> 0]

\* date.toISOString(), which throws a RangeError on an invalid date
toISOString(date) ==
    IF date.valid THEN Returned(IsoDate(date.time)) ELSE Thrown(<<"RangeError">>)

\* the local clock shifts by an hour at most over the 30 days added by
\* setDate (daylight saving time)
DstShifts == {0 - 1, 0, 1}

\* getDefaultDeadline(), at time now
getDefaultDeadline(now, shift) == IsoDate(now + 30 * 24 + shift)

\* extractDeadline(tender), OCDS JSON service
extractDeadline(t, now, shift) ==
    LET first == toISOString(NewDate(t.tenderPeriodEndDate))
        second == toISOString(NewDate(t.contractPeriodEndDate))
    IN  IF t.tenderPeriodEndDate.form # "absent" /\ ~first.threw
        THEN first.value
        ELSE IF t.contractPeriodEndDate.form # "absent" /\ ~second.threw
        THEN second.value
        ELSE getDefaultDeadline(now, shift)

EndDateColumn0 == "releases/0/tender/tenderPeriod/endDate"
EndDateColumn1 == "tender/tenderPeriod/endDate"

\* the deadline parseOCDSCSV gives the tender of a row
csvDeadline(row, now, shift) ==
    LET endDate == OrDate(row[EndDateColumn0], row[EndDateColumn1])
    IN  IF endDate.form # "absent" THEN endDate
        ELSE getDefaultDeadline(now, shift)

\* parseDate(dateValue), part_002
parseDate(dateValue, now, shift) ==
    IF dateValue.form = "absent" THEN getDefaultDeadline(now, shift)
    ELSE LET iso == toISOString(NewDate(dateValue))
         IN  IF iso.threw THEN getDefaultDeadline(now, shift) ELSE iso.value

----------------------------------------------------------------------------
(* Normalization of the monetary and date fields of one raw record *)

MaxNormNow  == 1     \* the parse happens at hour 0..MaxNormNow
EndDateHour == 100   \* the time a readable date field spells

Text250      == <<"2", "5", "0">>
TextAbc      == <<"a", "b", "c">>
TextMinus5   == <<"-", "5">>
TextPound1000 == <<"POUND", "1", ",", "0", "0", "0">>

\* the amounts of a JSON record: absent, numbers, strings
Amounts ==
    { Undefined, NumberValue(Num(250)), NumberValue(Num(0)),
      NumberValue(Num(0 - 5)), StringValue(Text250), StringValue(TextAbc),
      StringValue(<<>>) }

DateFields == { AbsentDate, IsoDate(EndDateHour), InvalidDate }

OCDSRaws ==
    [value : {Undefined} \cup { AmountObject(a) : a \in Amounts },
     minValue : {Undefined, AmountObject(NumberValue(Num(7)))},
     estimatedValue : {Undefined, AmountObject(NumberValue(Num(9)))},
     tenderPeriodEndDate : DateFields,
     contractPeriodEndDate : {AbsentDate, IsoDate(EndDateHour + 1)}]

CsvRaw(a0, a1, e0, e1) ==
    [c \in {AmountColumn0, AmountColumn1, EndDateColumn0, EndDateColumn1} |->
        CASE c = AmountColumn0  -> a0
          [] c = AmountColumn1  -> a1
          [] c = EndDateColumn0 -> e0
          [] OTHER              -> e1]

CsvRaws ==
    { CsvRaw(a0, a1, e0, e1) :
         a0 \in {<<>>, Text250, TextAbc, TextMinus5, InfinityText},
         a1 \in {<<>>, <<"7">>},
         e0 \in DateFields,
         e1 \in {AbsentDate, IsoDate(EndDateHour + 1)} }

NoticeValues ==
    { Undefined, NumberValue(Num(250)), NumberValue(Num(0 - 5)),
      StringValue(TextPound1000), StringValue(TextAbc),
      AmountObject(NumberValue(Num(250))), AmountObject(StringValue(TextAbc)) }

CFRaws ==
    [value : NoticeValues,
     minValue : {Undefined, NumberValue(Num(7))},
     estimatedValue : {Undefined},
     closing : DateFields,
     deadline : {AbsentDate, IsoDate(EndDateHour + 1)},
     closingDate : {AbsentDate}]

FTSRaws ==
    [value : NoticeValues,
     estimatedValue : {Undefined, NumberValue(Num(9))},
     deadline : DateFields,
     closingDate : {AbsentDate, IsoDate(EndDateHour + 1)}]

NormRaws(source) ==
    CASE source = "ocds" -> OCDSRaws
      [] source = "csv"  -> CsvRaws
      [] source = "cf"   -> CFRaws
      [] OTHER           -> FTSRaws

\* the value and the deadline the parser of the source gives the tender
NormalizedFields(source, raw, now, shift) ==
    CASE source = "ocds" ->
            [value |-> extractValue(raw),
             deadline |-> extractDeadline(raw, now, shift)]
      [] source = "csv" ->
            [value |-> csvValue(raw),
             deadline |-> csvDeadline(raw, now, shift)]
      [] source = "cf" ->
            [value |-> cfValue(raw),
             deadline |-> parseDate(OrDate(raw.closing,
                                           OrDate(raw.deadline, raw.closingDate)),
                                    now, shift)]
      [] OTHER ->
            [value |-> ftsValue(raw),
             deadline |-> parseDate(OrDate(raw.deadline, raw.closingDate),
                                    now, shift)]

\* the parser of the source builds the tender of the record
Normalize ==
    /\ normPc = "input"
    /\ \E shift \in DstShifts :
          normOut' = NormalizedFields(normSource, normRaw, normNow, shift)
    /\ normPc' = "done"
    /\ UNCHANGED <<envVars, normSource, normNow, normRaw, notNorm>>

NormRunning ==
    /\ normSource \in {"ocds", "csv", "cf", "fts"}
    /\ normPc = "input"
    /\ normNow \in 0..MaxNormNow
    /\ normRaw \in NormRaws(normSource)
    /\ normOut = <<>>

InitNorm ==
    /\ apiKey = FALSE
    /\ today = 1
    /\ clock = 0
    /\ apiCalls = 0
    /\ inFlight = 0
    /\ IdleExceptNorm
    /\ NormRunning

NextNorm == Normalize

SpecNorm == InitNorm /\ [][NextNorm]_vars

----------------------------------------------------------------------------
(* Claims about normalization *)

\* the number a raw monetary field spells, NaN when it spells none
AsNumber(v) ==
    CASE v.type = "number" -> v.num
      [] v.type = "string" -> parseFloatText(RemoveCurrency(v.text))
      [] v.type = "object" ->
            IF v.amount.type = "number" THEN v.amount.num
            ELSE IF v.amount.type = "string" THEN parseFloatText(v.amount.text)
            ELSE NaN
      [] OTHER -> NaN

\* the monetary fields of the raw record, under every alias of its parser
MoneyFields ==
    CASE normSource = "ocds" ->
            {normRaw.value, normRaw.minValue, normRaw.estimatedValue}
      [] normSource = "csv" ->
            {StringValue(normRaw[AmountColumn0]), StringValue(normRaw[AmountColumn1])}
      [] normSource = "cf" ->
            {normRaw.value, normRaw.minValue, normRaw.estimatedValue}
      [] OTHER -> {normRaw.value, normRaw.estimatedValue}

\* C11: a raw record whose monetary field is missing or spells no number
\* gives a tender of value 100000, and the value of every tender is a
\* finite number that is not negative.
C11_ValueDefaultAndRange ==
    normPc = "done" =>
        /\ (\A v \in MoneyFields : AsNumber(v).kind = "NaN") =>
               normOut.value = Num(100000)
        /\ normOut.value.kind = "finite"
        /\ normOut.value.n >= 0

\* the date fields of the raw record, under every alias of its parser
EndDateFields ==
    CASE normSource = "ocds" ->
            {normRaw.tenderPeriodEndDate, normRaw.contractPeriodEndDate}
      [] normSource = "csv" -> {normRaw[EndDateColumn0], normRaw[EndDateColumn1]}
      [] normSource = "cf" -> {normRaw.closing, normRaw.deadline, normRaw.closingDate}
      [] OTHER -> {normRaw.deadline, normRaw.closingDate}

\* C12: a raw record whose end date is missing or is no date gives a tender
\* whose deadline lies between now and now + 31 days, and the deadline of
\* every tender reads as a valid date.
C12_DeadlineDefaultAndValid ==
    normPc = "done" =>
        /\ (\A d \in EndDateFields : ~NewDate(d).valid) =>
               /\ NewDate(normOut.deadline).valid
               /\ NewDate(normOut.deadline).time >= normNow
               /\ NewDate(normOut.deadline).time <= normNow + 31 * 24
        /\ NewDate(normOut.deadline).valid

\* the paths extractValue of the OCDS JSON service examines, in its order
ValuePaths == <<normRaw.value, normRaw.minValue, normRaw.estimatedValue>>

\* the path k has an amount: the field is there and is not null
AmountPresent(k) == Amount(ValuePaths[k]).type # "undefined"

\* C25: the value of an OCDS tender is the amount of the first of
\* tender.value, tender.minValue and tender.estimatedValue that has one, an
\* amount of 0 included; a later path is used only when every earlier path
\* has no amount.
C25_FirstPresentAmount ==
    (normPc = "done" /\ normSource = "ocds") =>
        \A k \in 1..Len(ValuePaths) :
            (/\ AmountPresent(k)
             /\ \A j \in 1..(k - 1) : ~AmountPresent(j)
             /\ AsNumber(ValuePaths[k]).kind # "NaN")
                => normOut.value = AsNumber(ValuePaths[k])

----------------------------------------------------------------------------
(* The retries of fetchOCDSTenders *)

\* the OCDS JSON service alone
InitRetry == InitCache /\ pipeline = "ocds"

\* every request settles, and every timer fires
SpecRetry ==
    /\ InitRetry
    /\ [][NextFetch]_vars
    /\ WF_vars(SourceResponds)
    /\ WF_vars(RetryTimerFires)

\* a step of the call of fetchOCDSTenders
RetryStep ==
    LET c == call["ocds"]
        d == call'["ocds"]
    IN  \* a failed attempt that is not the last one arms the timer of the
        \* next retry, 1000 ms times the number of that retry
        /\ (c.pc = "awaiting" /\ d.pc = "retryWait") =>
              /\ c.retryCount < MAX_RETRIES
              /\ d.retryAt = clock + 1000 * (c.retryCount + 1)
              /\ d.requests = c.requests
        \* the retry starts when its timer has run, and not before
        /\ (c.pc = "retryWait" /\ d.pc # "retryWait") =>
              /\ clock' >= c.retryAt
              /\ d.retryCount = c.retryCount + 1
              /\ d.requests <= c.requests + 1
        \* a last attempt that fails resolves to the empty list
        /\ (c.pc = "awaiting" /\ d.pc = "settled" /\ storage' = storage) =>
              /\ c.retryCount = MAX_RETRIES
              /\ d.out = <<>>

----------------------------------------------------------------------------
(* App.jsx: filteredAndSortedTenders *)

\* arr.includes(x)
includes(arr, x) == \E k \in 1..Len(arr) : arr[k] = x

\* the list that is shown: the live tenders, or the sample tenders
currentTenders == IF dataSource = "live" THEN liveTenders ELSE sampleTenders

\* the callback of currentTenders.filter reads tender.sirona_fit.recommendation
\* once the status test has let the tender through and a recommendation is
\* selected; on a tender without sirona_fit that is a TypeError
filterThrows(t, sF, rF) ==
    /\ ~(sF # "all" /\ t.status # sF)
    /\ rF # "all"
    /\ t.sirona_fit = Null

\* the callback of currentTenders.filter, where it returns
filterKeeps(t, sF, rF, cF) ==
    /\ ~(sF # "all" /\ t.status # sF)
    /\ ~(rF # "all" /\ t.sirona_fit.recommendation # rF)
    /\ (Len(cF) > 0 => \E k \in 1..Len(cF) : includes(t.categories, cF[k]))

RECURSIVE filterFrom(_, _, _, _)
filterFrom(arr, sF, rF, cF) ==
    IF arr = <<>> THEN <<>>
    ELSE (IF filterKeeps(Head(arr), sF, rF, cF) THEN <<Head(arr)>> ELSE <<>>)
         \o filterFrom(Tail(arr), sF, rF, cF)

\* currentTenders.filter(...): a new array, or the TypeError of the callback
filter(arr, sF, rF, cF) ==
    IF \E k \in 1..Len(arr) : filterThrows(arr[k], sF, rF)
    THEN Thrown(<<"TypeError">>)
    ELSE Returned(filterFrom(arr, sF, rF, cF))

\* new Date(a) - new Date(b); NaN for an invalid date, which sort takes as 0
dateDifference(a, b) ==
    IF NewDate(a).valid /\ NewDate(b).valid
    THEN NewDate(a).time - NewDate(b).time
    ELSE 0

\* the comparator reads the alignment_score of both sirona_fit
compareThrows(by, a, b) ==
    by = "alignment-desc" /\ (a.sirona_fit = Null \/ b.sirona_fit = Null)

\* the comparator of the sort, where it returns
compare(by, a, b) ==
    CASE by = "deadline-asc"   -> dateDifference(a.deadline, b.deadline)
      [] by = "deadline-desc"  -> dateDifference(b.deadline, a.deadline)
      [] by = "value-high"     -> b.value - a.value
      [] by = "value-low"      -> a.value - b.value
      [] by = "alignment-desc" ->
            b.sirona_fit.alignment_score - a.sirona_fit.alignment_score
      [] OTHER                 -> 0

\* a variant of insert below that puts an element before its equals
insert_beforeEquals(by, sorted, t) ==
    LET p == Cardinality({k \in 1..Len(sorted) : compare(by, sorted[k], t) < 0})
    IN  SubSeq(sorted, 1, p) \o <<t>> \o SubSeq(sorted, p + 1, Len(sorted))

\* Array.prototype.sort is stable: an element goes after the elements that
\* do not compare greater than it
insert(by, sorted, t) ==
    LET p == Cardinality({k \in 1..Len(sorted) : compare(by, sorted[k], t) <= 0})
    IN  SubSeq(sorted, 1, p) \o <<t>> \o SubSeq(sorted, p + 1, Len(sorted))

RECURSIVE sortInto(_, _, _)
sortInto(by, sorted, rest) ==
    IF rest = <<>> THEN sorted
    ELSE sortInto(by, insert(by, sorted, Head(rest)), Tail(rest))

\* arr.sort(comparator): every element of an array of two or more is compared
\* at least once, so the comparator throws when one of them has no sirona_fit
sort(arr, by) ==
    IF Len(arr) >= 2 /\ \E j, k \in 1..Len(arr) : compareThrows(by, arr[j], arr[k])
    THEN Thrown(<<"TypeError">>)
    ELSE Returned(sortInto(by, <<>>, arr))

\* the function of the useMemo: the array it was given after the call, and
\* what it returned or threw; filter and the spread build new arrays, so the
\* sort is of a copy
filterAndSort(arr, sF, rF, cF, by) ==
    LET filtered == filter(arr, sF, rF, cF) IN
    [input  |-> arr,
     result |-> IF filtered.threw THEN filtered ELSE sort(filtered.value, by)]

\* toggleCategory
toggleCategory(prev, category) ==
    IF includes(prev, category)
    THEN SelectSeq(prev, LAMBDA c : c # category)
    ELSE Append(prev, category)

----------------------------------------------------------------------------
(* The view as a function of the list and of the criteria *)

\* the longest list
MaxView == 2

Fit(recommendation, score) ==
    [recommendation |-> recommendation, alignment_score |-> score]

ViewTender(id, status, hour, value, categories, fit) ==
    [id |-> id, status |-> status, deadline |-> IsoDate(hour), value |-> value,
     categories |-> categories, sirona_fit |-> fit]

\* two tenders with the same deadline and the same value, a tender of score
\* 0, and a tender as parseOCDSCSV builds it, with sirona_fit: null
ViewTenders ==
    { ViewTender("t1", "new", 1, 100, <<"Healthcare">>, Fit("Strong Go", 80)),
      ViewTender("t2", "go", 1, 100, <<"Other">>, Fit("Monitor", 50)),
      ViewTender("t3", "go", 2, 200, <<"Healthcare", "Mental Health">>,
                 Fit("Strong Go", 0)),
      ViewTender("t4", "new", 3, 50, <<"Other">>, Null) }

\* the lists of at most MaxView tenders with distinct ids
ViewLists ==
    { l \in UNION { [1..n -> ViewTenders] : n \in 0..MaxView } :
        \A j, k \in 1..Len(l) : j # k => l[j].id # l[k].id }

StatusChoices == {"all", "new", "go"}
RecommendationChoices == {"all", "Strong Go", "Monitor"}
CategoryChoices == {"Healthcare", "Other"}
SortChoices ==
    {"deadline-asc", "deadline-desc", "value-high", "value-low", "alignment-desc"}

\* the services are not in use
ServicesIdle ==
    /\ EnrichIdle /\ BatchIdle /\ FetchIdle /\ DedupeIdle /\ NormIdle /\ CostIdle
    /\ TextIdle

\* what an action of the dashboard leaves alone
notApp ==
    <<envVars, enrichVars, batchVars, fetchVars, dedupeVars, normVars, costVars,
      textVars>>

\* a render after the criteria changed: the useMemo runs its function again.
\* After a render threw, the error boundary has replaced the dashboard.
RenderWith(sF, rF, cF, by) ==
    LET r == filterAndSort(currentTenders, sF, rF, cF, by) IN
    /\ ~filteredAndSortedTenders.threw
    /\ statusFilter' = sF
    /\ recommendationFilter' = rF
    /\ categoryFilter' = cF
    /\ sortBy' = by
    /\ filteredAndSortedTenders' = r.result
    /\ sampleTenders' = IF dataSource = "live" THEN sampleTenders ELSE r.input
    /\ liveTenders' = IF dataSource = "live" THEN r.input ELSE liveTenders
    /\ UNCHANGED <<dataSource, isFetching, fetchError, lastUpdated, fetchedTenders>>
    /\ UNCHANGED <<notApp, analysisVars>>

\* the status select
SetStatusFilter ==
    \E v \in StatusChoices :
        /\ v # statusFilter
        /\ RenderWith(v, recommendationFilter, categoryFilter, sortBy)

\* the recommendation select, and the Strong Go card
SetRecommendationFilter ==
    \E v \in RecommendationChoices :
        /\ v # recommendationFilter
        /\ RenderWith(statusFilter, v, categoryFilter, sortBy)

\* a category chip
ToggleCategory ==
    \E c \in CategoryChoices :
        RenderWith(statusFilter, recommendationFilter,
                   toggleCategory(categoryFilter, c), sortBy)

\* the sort select, and the alignment, urgent and value cards
SetSortBy ==
    \E v \in SortChoices :
        /\ v # sortBy
        /\ RenderWith(statusFilter, recommendationFilter, categoryFilter, v)

\* the button of the empty view
ClearAllFilters ==
    /\ ~filteredAndSortedTenders.threw
    /\ filteredAndSortedTenders.value = <<>>
    /\ RenderWith("all", "all", <<>>, sortBy)

\* the button of the error boundary: the page starts again
ReloadPage ==
    /\ filteredAndSortedTenders.threw
    /\ statusFilter' = "all"
    /\ recommendationFilter' = "all"
    /\ categoryFilter' = <<>>
    /\ sortBy' = "deadline-asc"
    /\ dataSource' = "sample"
    /\ liveTenders' = <<>>
    /\ filteredAndSortedTenders' =
           filterAndSort(sampleTenders, "all", "all", <<>>, "deadline-asc").result
    /\ UNCHANGED <<sampleTenders, isFetching, fetchError, lastUpdated, fetchedTenders>>
    /\ UNCHANGED <<notApp, analysisVars>>

\* the dashboard over a list, with the criteria of the first render
InitView ==
    /\ apiKey = FALSE
    /\ today = 1
    /\ clock = 0
    /\ apiCalls = 0
    /\ inFlight = 0
    /\ ServicesIdle
    /\ AnalysisIdle
    /\ \E l \in ViewLists, source \in {"sample", "live"} :
          /\ source = "live" => l # <<>>
          /\ dataSource = source
          /\ sampleTenders = IF source = "live" THEN <<>> ELSE l
          /\ liveTenders = IF source = "live" THEN l ELSE <<>>
          /\ filteredAndSortedTenders =
                 filterAndSort(l, "all", "all", <<>>, "deadline-asc").result
    /\ isFetching = FALSE
    /\ fetchError = Null
    /\ lastUpdated = Null
    /\ fetchedTenders = <<>>
    /\ statusFilter = "all"
    /\ recommendationFilter = "all"
    /\ categoryFilter = <<>>
    /\ sortBy = "deadline-asc"

NextView ==
    \/ SetStatusFilter
    \/ SetRecommendationFilter
    \/ ToggleCategory
    \/ SetSortBy
    \/ ClearAllFilters
    \/ ReloadPage

SpecView == InitView /\ [][NextView]_vars

----------------------------------------------------------------------------
(* Claims about the view *)

\* the tenders of a list, as a set
Elements(l) == {l[k] : k \in 1..Len(l)}

\* the predicates of the criteria, a tender without sirona_fit having no
\* recommendation
Satisfies(t, sF, rF, cF) ==
    /\ sF # "all" => t.status = sF
    /\ rF # "all" => t.sirona_fit # Null /\ t.sirona_fit.recommendation = rF
    /\ cF # <<>> => \E k \in 1..Len(cF) : includes(t.categories, cF[k])

ScoreOf(t) == IF t.sirona_fit = Null THEN 0 ELSE t.sirona_fit.alignment_score

\* C15: sorted by alignment-desc the view is computed without an error, and a
\* tender without sirona_fit comes after every tender of a score above 0
C15_AlignmentSortTotal ==
    sortBy = "alignment-desc" =>
        /\ ~filteredAndSortedTenders.threw
        /\ \A j, k \in 1..Len(filteredAndSortedTenders.value) :
              j < k => ScoreOf(filteredAndSortedTenders.value[j])
                         >= ScoreOf(filteredAndSortedTenders.value[k])

\* the list is in ascending order of deadline
SortedByDeadline(l) ==
    \A j, k \in 1..Len(l) :
        j < k => NewDate(l[j].deadline).time <= NewDate(l[k].deadline).time

DefaultCriteria ==
    /\ statusFilter = "all"
    /\ recommendationFilter = "all"
    /\ categoryFilter = <<>>
    /\ sortBy = "deadline-asc"

\* C16: computing the view leaves the list it is computed from as it was, and
\* with no filter and deadline-asc the view of a list already in ascending
\* order of deadline is that list
C16_InputKeptAndIdempotent ==
    /\ [][sampleTenders' = sampleTenders
            /\ (dataSource' = dataSource => liveTenders' = liveTenders)]_vars
    /\ [](DefaultCriteria /\ SortedByDeadline(currentTenders)
            => filteredAndSortedTenders = Returned(currentTenders))

\* the view of a list of two tenders of the same deadline, computed with the
\* default criteria, is that list
C16_Witness ==
    /\ DefaultCriteria
    /\ Len(currentTenders) = 2
    /\ currentTenders[1].deadline = currentTenders[2].deadline
    /\ filteredAndSortedTenders = Returned(currentTenders)

----------------------------------------------------------------------------
(* Numbers of more than 31 bits *)

\* A natural number is the sequence of its digits in base 1024, the lowest
\* first and the highest not 0; 0 is the empty sequence.
RECURSIVE BigOf(_)
BigOf(n) == IF n = 0 THEN <<>> ELSE <<n % 1024>> \o BigOf(n \div 1024)

RECURSIVE BigAddCarry(_, _, _)
BigAddCarry(a, b, c) ==
    IF a = <<>> /\ b = <<>> THEN BigOf(c)
    ELSE LET x == IF a = <<>> THEN 0 ELSE Head(a)
             y == IF b = <<>> THEN 0 ELSE Head(b)
             t == x + y + c
         IN  <<t % 1024>> \o BigAddCarry(IF a = <<>> THEN <<>> ELSE Tail(a),
                                         IF b = <<>> THEN <<>> ELSE Tail(b),
                                         t \div 1024)

BigAdd(a, b) == BigAddCarry(a, b, 0)

RECURSIVE BigTimesCarry(_, _, _)
BigTimesCarry(a, k, c) ==
    IF a = <<>> THEN BigOf(c)
    ELSE LET t == Head(a) * k + c
         IN  <<t % 1024>> \o BigTimesCarry(Tail(a), k, t \div 1024)

\* a * k, for k below 2^20
BigTimes(a, k) == IF k = 0 THEN <<>> ELSE BigTimesCarry(a, k, 0)

\* a * 1024^j
BigShiftDigits(a, j) == IF a = <<>> THEN <<>> ELSE [i \in 1..j |-> 0] \o a

RECURSIVE BigMul(_, _)
BigMul(a, b) ==
    IF b = <<>> THEN <<>>
    ELSE BigAdd(BigTimes(a, Head(b)), BigShiftDigits(BigMul(a, Tail(b)), 1))

\* a * 2^k
BigShiftLeft(a, k) == BigShiftDigits(BigTimes(a, 2^(k % 10)), k \div 10)

\* quotient and remainder of a by d, for d below 2^20
RECURSIVE BigDivide(_, _)
BigDivide(a, d) ==
    IF a = <<>> THEN [q |-> <<>>, r |-> 0]
    ELSE LET hi == BigDivide(Tail(a), d)
             t  == hi.r * 1024 + Head(a)
         IN  [q |-> IF hi.q = <<>> /\ t \div d = 0 THEN <<>>
                    ELSE <<t \div d>> \o hi.q,
              r |-> t % d]

RECURSIVE IntBits(_)
IntBits(n) == IF n = 0 THEN 0 ELSE 1 + IntBits(n \div 2)

\* the number of binary digits of a
BigBits(a) == IF a = <<>> THEN 0 ELSE 10 * (Len(a) - 1) + IntBits(a[Len(a)])

BigIsOdd(a) == a # <<>> /\ a[1] % 2 = 1

\* a \div 2^k, and whether a binary digit that was cut off is 1
BigShiftRight(a, k) ==
    LET low  == SubSeq(a, 1, k \div 10)
        rest == SubSeq(a, (k \div 10) + 1, Len(a))
        d    == BigDivide(rest, 2^(k % 10))
    IN  [q |-> d.q, sticky |-> d.r # 0 \/ \E i \in 1..Len(low) : low[i] # 0]

----------------------------------------------------------------------------
(* The Number type: IEEE 754 binary64, positive values *)

\* A positive Number is m * 2^e with m of exactly 53 binary digits.
\* RoundToDouble is the Number nearest to M * 2^e, a tie going to the even m;
\* sticky tells that the exact value is above M * 2^e by less than 2^e.
RoundToDouble(M, e, sticky) ==
    LET bits == BigBits(M) IN
    IF bits <= 53
    THEN [m |-> BigShiftLeft(M, 53 - bits), e |-> e - (53 - bits)]
    ELSE LET s    == bits - 53
             h    == BigShiftRight(M, s - 1)
             q    == BigDivide(h.q, 2).q
             up   == BigIsOdd(h.q) /\ (h.sticky \/ sticky \/ BigIsOdd(q))
             q1   == IF up THEN BigAdd(q, <<1>>) ELSE q
         IN  IF BigBits(q1) = 54
             THEN [m |-> BigDivide(q1, 2).q, e |-> e + s + 1]
             ELSE [m |-> q1, e |-> e + s]

\* the Number of an integer
ToNumber(n) == RoundToDouble(BigOf(n), 0, FALSE)

\* x * y
Multiply(x, y) == RoundToDouble(BigMul(x.m, y.m), x.e + y.e, FALSE)

\* x + y
Add(x, y) ==
    LET e == IF x.e < y.e THEN x.e ELSE y.e IN
    RoundToDouble(BigAdd(BigShiftLeft(x.m, x.e - e), BigShiftLeft(y.m, y.e - e)),
                  e, FALSE)

\* x / d for an integer d below 2^20: the quotient is taken with more than
\* 55 binary digits, its remainder is the sticky digit
Divide(x, d) ==
    LET k == 56 + IntBits(d)
        r == BigDivide(BigShiftLeft(x.m, k), d)
    IN  RoundToDouble(r.q, x.e - k, r.r # 0)

\* the literal 0.79
Literal079 == Divide(ToNumber(79), 100)

----------------------------------------------------------------------------
(* claudeAnalyzer.js: estimateAnalysisCost *)

\* the counts are integers here, so the test is tenderCount < 1; the two
\* formatted texts of the result are left out
estimateAnalysisCost(count) ==
    IF count < 1 THEN Thrown(<<"Invalid tender count provided">>)
    ELSE LET avgInputTokensPerTender  == 1000
             avgOutputTokensPerTender == 500
             totalInputTokens  == count * avgInputTokensPerTender
             totalOutputTokens == count * avgOutputTokensPerTender
             inputCostUSD  ==
                 Multiply(Divide(ToNumber(totalInputTokens), 1000000), ToNumber(3))
             outputCostUSD ==
                 Multiply(Divide(ToNumber(totalOutputTokens), 1000000), ToNumber(15))
             totalCostUSD  == Add(inputCostUSD, outputCostUSD)
             totalCostGBP  == Multiply(totalCostUSD, Literal079)
         IN  Returned([tenderCount           |-> count,
                       estimatedInputTokens  |-> totalInputTokens,
                       estimatedOutputTokens |-> totalOutputTokens,
                       totalTokens           |-> totalInputTokens + totalOutputTokens,
                       inputCostUSD          |-> inputCostUSD,
                       outputCostUSD         |-> outputCostUSD,
                       totalCostUSD          |-> totalCostUSD,
                       totalCostGBP          |-> totalCostGBP,
                       costPerTenderUSD      |-> Divide(totalCostUSD, count),
                       costPerTenderGBP      |-> Divide(totalCostGBP, count)])

----------------------------------------------------------------------------
(* The estimate as a function of the count *)

\* the largest count
MaxCount == 60

EstimateCost ==
    /\ costPc = "input"
    /\ costEstimate' = estimateAnalysisCost(tenderCount)
    /\ costPc' = "done"
    /\ UNCHANGED tenderCount
    /\ UNCHANGED <<envVars, notCost>>

CostRunning ==
    /\ tenderCount \in 0..MaxCount
    /\ costPc = "input"
    /\ costEstimate = Null

InitCost ==
    /\ apiKey = FALSE
    /\ today = 1
    /\ clock = 0
    /\ apiCalls = 0
    /\ inFlight = 0
    /\ IdleExceptCost
    /\ CostRunning

NextCost == EstimateCost

SpecCost == InitCost /\ [][NextCost]_vars

\* the estimate for one tender
EstimateForOne == estimateAnalysisCost(1).value

\* C17: for a count n of 1 or more the total cost in USD and in GBP is n times
\* the total cost for one tender, and the cost per tender is the one for one
\* tender
C17_CostLinear ==
    (costPc = "done" /\ tenderCount >= 1) =>
        /\ ~costEstimate.threw
        /\ costEstimate.value.totalCostUSD =
               Multiply(ToNumber(tenderCount), EstimateForOne.totalCostUSD)
        /\ costEstimate.value.totalCostGBP =
               Multiply(ToNumber(tenderCount), EstimateForOne.totalCostGBP)
        /\ costEstimate.value.costPerTenderUSD = EstimateForOne.costPerTenderUSD
        /\ costEstimate.value.costPerTenderGBP = EstimateForOne.costPerTenderGBP

----------------------------------------------------------------------------
(* App.jsx: live data and analysis from the dashboard *)

NonNull(v) == [isNull |-> FALSE, value |-> v]

\* t.ai_analyzed, as a condition
AiAnalyzed(t) == Has(t, "ai_analyzed") /\ t.ai_analyzed

\* tenderAnalysisStatus[id], "none" for undefined
StatusOf(status, id) == IF id \in DOMAIN status THEN status[id] ELSE "none"

\* arr.map(f)
Map(arr, f(_)) == [k \in 1..Len(arr) |-> f(arr[k])]

\* the tender of the detail panel is looked up by id in the sample tenders
selectedTender(id) ==
    IF \E k \in 1..Len(sampleTenders) : sampleTenders[k].id = id
    THEN sampleTenders[CHOOSE k \in 1..Len(sampleTenders) :
                          /\ sampleTenders[k].id = id
                          /\ \A j \in 1..(k - 1) : sampleTenders[j].id # id]
    ELSE Null

\* the selection of the button Analyze Unanalyzed Tenders
unanalyzedOf(live, analyzed) ==
    SelectSeq(live, LAMBDA t : ~AiAnalyzed(t) /\ t.id \notin analyzed)

\* the auto-analyze effect: the timer it sets, with the tenders it selected
autoAnalyzeEffect(auto, keyStatus, source, live, analyzing, analyzed, status) ==
    IF auto /\ keyStatus.isReady /\ source = "live" /\ Len(live) > 0 /\ ~analyzing
    THEN LET unanalyzed ==
                 SelectSeq(live, LAMBDA t : /\ ~AiAnalyzed(t)
                                            /\ t.id \notin analyzed
                                            /\ StatusOf(status, t.id) # "analyzing")
         IN  IF Len(unanalyzed) > 0
             THEN [isNull |-> FALSE, unanalyzed |-> unanalyzed, dataSource |-> source]
             ELSE Null
    ELSE Null

\* a render in which a dependency of the auto-analyze effect changed: the
\* timer of the render before is cleared and the effect runs
EffectRuns ==
    autoTimer' = autoAnalyzeEffect(autoAnalyze', apiKeyStatus', dataSource',
                                   liveTenders', isAnalyzing', analyzedTenders',
                                   tenderAnalysisStatus')

\* what callClaudeAPI comes to in the runs of the dashboard: the request
\* fails, or the reply is a valid assessment
AnalysisCalls ==
    { callClaudeAPI([kind |-> "reject", message |-> <<"Failed to fetch">>]),
      callClaudeAPI(Response(200, "",
          Envelope(<<TextBlock(<<J(FullFit(92, "Strong Go"))>>)>>, TRUE, TRUE))) }

\* attempts and fetches a behaviour holds at most
MaxAnalyses == 3
MaxLoads == 2
\* tenders of the live list
MaxLive == 2

\* attempts started so far
AnalysesStarted ==
    lastSettled.n + Cardinality(singleRuns) + (IF batchRun.isNull THEN 0 ELSE 1)

notDashboard ==
    <<enrichVars, batchVars, fetchVars, dedupeVars, normVars, costVars, textVars>>

\* handleAnalyzeSingleTender(selectedTender), up to the await, for a card of
\* the view; the button is shown for live data with a key, and is disabled
\* while the tender is analyzing
HandleAnalyzeSingleTender ==
    /\ ~filteredAndSortedTenders.threw
    /\ \E k \in 1..Len(filteredAndSortedTenders.value) :
        LET selected == selectedTender(filteredAndSortedTenders.value[k].id)
            status   == StatusOf(tenderAnalysisStatus, selected.id)
        IN  /\ selected # Null
            /\ dataSource = "live"
            /\ apiKeyStatus.isReady
            /\ IF ~AiAnalyzed(selected) /\ status # "success"
               THEN status # "analyzing"
               ELSE status = "error"
            /\ AnalysesStarted < MaxAnalyses
            /\ tenderAnalysisStatus' =
                   Spread(tenderAnalysisStatus, [id \in {selected.id} |-> "analyzing"])
            /\ singleRuns' =
                   singleRuns \cup {[tender |-> selected, dataSource |-> dataSource]}
            /\ UNCHANGED <<apiKeyStatus, autoAnalyze, isAnalyzing, analysisProgress,
                           sessionAnalysisCount, sessionAnalysisCost, analyzedTenders,
                           batchRun, autoTimer, lastSettled>>
            /\ UNCHANGED <<liveVars, viewVars, envVars, notDashboard>>

\* handleAnalyzeSingleTender, from the point where analyzeTenderWithClaude
\* has settled
SingleTenderSettles ==
    \E run \in singleRuns :
      \E settled \in {analyzeTenderWithClaude(run.tender, r, clock) : r \in AnalysisCalls} :
        LET enrichedTender == settled.value
            id == run.tender.id
        IN  /\ singleRuns' = singleRuns \ {run}
            /\ IF settled.settled = "resolved"
               THEN /\ liveTenders' =
                          IF run.dataSource = "live"
                          THEN Map(liveTenders,
                                   LAMBDA t : IF t.id = id THEN enrichedTender ELSE t)
                          ELSE liveTenders
                    /\ tenderAnalysisStatus' =
                          Spread(tenderAnalysisStatus, [i \in {id} |-> "success"])
                    /\ analyzedTenders' = analyzedTenders \cup {id}
                    /\ sessionAnalysisCount' = sessionAnalysisCount + 1
                    /\ sessionAnalysisCost' = Append(sessionAnalysisCost, 1)
                    /\ lastSettled' = [n |-> lastSettled.n + 1,
                                       results |-> <<enrichedTender>>]
               ELSE /\ tenderAnalysisStatus' =
                          Spread(tenderAnalysisStatus, [i \in {id} |-> "error"])
                    /\ lastSettled' = [n |-> lastSettled.n + 1, results |-> <<>>]
                    /\ UNCHANGED <<liveTenders, analyzedTenders, sessionAnalysisCount,
                                   sessionAnalysisCost>>
            /\ UNCHANGED <<apiKeyStatus, autoAnalyze, isAnalyzing, analysisProgress,
                           batchRun>>
            /\ UNCHANGED <<dataSource, isFetching, fetchError, lastUpdated, fetchedTenders>>
            /\ UNCHANGED <<viewVars, envVars, notDashboard>>
            /\ IF settled.settled = "resolved" /\ run.dataSource = "live"
               THEN EffectRuns
               ELSE UNCHANGED autoTimer

\* handleAnalyzeBatch(tendersToAnalyze) once the user has confirmed, up to
\* the await
BatchBegins(tendersToAnalyze, source, origin) ==
    /\ isAnalyzing' = TRUE
    /\ analysisProgress' = [current |-> 0, total |-> Len(tendersToAnalyze)]
    /\ tenderAnalysisStatus' =
           Spread(tenderAnalysisStatus,
                  [id \in {tendersToAnalyze[k].id : k \in 1..Len(tendersToAnalyze)}
                      |-> "analyzing"])
    /\ batchRun' = [isNull |-> FALSE, tendersToAnalyze |-> tendersToAnalyze,
                    dataSource |-> source, origin |-> origin]
    /\ UNCHANGED <<apiKeyStatus, autoAnalyze, sessionAnalysisCount,
                   sessionAnalysisCost, analyzedTenders, singleRuns, lastSettled>>
    /\ UNCHANGED <<liveVars, viewVars, envVars, notDashboard>>
    /\ EffectRuns

\* the buttons Analyze Unanalyzed Tenders and Analyze All Tenders, confirmed
HandleAnalyzeBatch ==
    \E tendersToAnalyze \in {unanalyzedOf(liveTenders, analyzedTenders), liveTenders} :
        /\ apiKeyStatus.isReady /\ dataSource = "live" /\ Len(liveTenders) > 0
        /\ ~isAnalyzing /\ ~isFetching
        /\ Len(tendersToAnalyze) > 0
        /\ AnalysesStarted < MaxAnalyses
        /\ BatchBegins(tendersToAnalyze, dataSource, "button")

\* the timer of the auto-analyze effect fires: handleAnalyzeBatch(unanalyzed)
\* of the render that set it, which asks the user to confirm
AutoAnalyzeTimerFires ==
    /\ ~autoTimer.isNull
    /\ \E confirmed \in BOOLEAN :
          IF confirmed /\ AnalysesStarted < MaxAnalyses
          THEN BatchBegins(autoTimer.unanalyzed, autoTimer.dataSource, "timer")
          ELSE /\ autoTimer' = Null
               /\ UNCHANGED <<apiKeyStatus, autoAnalyze, isAnalyzing, analysisProgress,
                              sessionAnalysisCount, sessionAnalysisCost,
                              analyzedTenders, tenderAnalysisStatus, singleRuns,
                              batchRun, lastSettled>>
               /\ UNCHANGED <<liveVars, viewVars, envVars, notDashboard>>

\* handleAnalyzeBatch, from the point where analyzeTendersBatch has resolved;
\* the calls of the batch answer one by one
BatchSettles ==
    /\ ~batchRun.isNull
    /\ \E enrichedTenders \in
              { [k \in 1..Len(batchRun.tendersToAnalyze) |->
                    analyzeTenderWithClaude(batchRun.tendersToAnalyze[k],
                                            rs[k], clock).value]
                : rs \in [1..Len(batchRun.tendersToAnalyze) -> AnalysisCalls] } :
          LET ids == {enrichedTenders[k].id : k \in 1..Len(enrichedTenders)}
              \* new Map(...).get(id): the last tender of the id
              enriched(id) ==
                  enrichedTenders[CHOOSE k \in 1..Len(enrichedTenders) :
                      /\ enrichedTenders[k].id = id
                      /\ \A j \in (k + 1)..Len(enrichedTenders) :
                             enrichedTenders[j].id # id]
              successCount ==
                  Cardinality({k \in 1..Len(enrichedTenders) :
                                   AiAnalyzed(enrichedTenders[k])})
          IN  /\ liveTenders' =
                     IF batchRun.dataSource = "live"
                     THEN Map(liveTenders,
                              LAMBDA t : IF t.id \in ids THEN enriched(t.id) ELSE t)
                     ELSE liveTenders
              /\ tenderAnalysisStatus' =
                     Spread(tenderAnalysisStatus,
                            [id \in ids |-> IF AiAnalyzed(enriched(id))
                                            THEN "success" ELSE "error"])
              /\ analyzedTenders' =
                     analyzedTenders
                         \cup {enrichedTenders[k].id : k \in
                                  {j \in 1..Len(enrichedTenders) :
                                       AiAnalyzed(enrichedTenders[j])}}
              /\ sessionAnalysisCount' = sessionAnalysisCount + successCount
              /\ sessionAnalysisCost' =
                     Append(sessionAnalysisCost, Len(batchRun.tendersToAnalyze))
              /\ lastSettled' = [n |-> lastSettled.n + 1, results |-> enrichedTenders]
    /\ isAnalyzing' = FALSE
    /\ analysisProgress' = [current |-> 0, total |-> 0]
    /\ batchRun' = Null
    /\ UNCHANGED <<apiKeyStatus, autoAnalyze, singleRuns>>
    /\ UNCHANGED <<dataSource, isFetching, fetchError, lastUpdated, fetchedTenders>>
    /\ UNCHANGED <<viewVars, envVars, notDashboard>>
    /\ EffectRuns

\* the checkbox of the analysis panel
SetAutoAnalyze ==
    /\ apiKeyStatus.isReady /\ dataSource = "live" /\ Len(liveTenders) > 0
    /\ autoAnalyze' = ~autoAnalyze
    /\ UNCHANGED <<apiKeyStatus, isAnalyzing, analysisProgress, sessionAnalysisCount,
                   sessionAnalysisCost, analyzedTenders, tenderAnalysisStatus,
                   singleRuns, batchRun, lastSettled>>
    /\ UNCHANGED <<liveVars, viewVars, envVars, notDashboard>>
    /\ EffectRuns

\* handleDataSourceToggle
HandleDataSourceToggle ==
    /\ dataSource' = IF dataSource = "sample"
                     THEN (IF Len(liveTenders) > 0 THEN "live" ELSE "sample")
                     ELSE "sample"
    /\ dataSource' # dataSource
    /\ UNCHANGED <<apiKeyStatus, autoAnalyze, isAnalyzing, analysisProgress,
                   sessionAnalysisCount, sessionAnalysisCost, analyzedTenders,
                   tenderAnalysisStatus, singleRuns, batchRun, lastSettled>>
    /\ UNCHANGED <<liveTenders, isFetching, fetchError, lastUpdated, fetchedTenders>>
    /\ UNCHANGED <<viewVars, envVars, notDashboard>>
    /\ EffectRuns

\* handleFetchTenders, up to the await
HandleFetchTenders ==
    /\ ~isFetching
    /\ clock < MaxLoads
    /\ isFetching' = TRUE
    /\ fetchError' = Null
    /\ UNCHANGED <<dataSource, liveTenders, lastUpdated, fetchedTenders>>
    /\ UNCHANGED <<analysisVars, viewVars, envVars, notDashboard>>

\* the lists fetchAndProcessTenders resolves to
LiveTender(k) ==
    ViewTender("T" \o ToString(k), "new", k, 100 * k, <<"Other">>,
               Fit("Monitor", 60))

LiveLists == { [k \in 1..n |-> LiveTender(k)] : n \in 0..MaxLive }

NoTendersFound ==
    "No tenders found matching your search criteria. Try adjusting your parameters or use sample data."

\* a variant of fetchTendersOutcome below in which an empty answer empties
\* the live list
fetchTendersOutcome_emptyReplaces(fetched, now) ==
    IF Len(fetched) > 0
    THEN [liveTenders |-> fetched, dataSource |-> "live",
          lastUpdated |-> NonNull(now), fetchError |-> fetchError]
    ELSE [liveTenders |-> fetched, dataSource |-> dataSource,
          lastUpdated |-> lastUpdated, fetchError |-> NonNull(NoTendersFound)]

\* the try block of handleFetchTenders after the await: the state it sets
fetchTendersOutcome(fetched, now) ==
    IF Len(fetched) > 0
    THEN [liveTenders |-> fetched, dataSource |-> "live",
          lastUpdated |-> NonNull(now), fetchError |-> fetchError]
    ELSE [liveTenders |-> liveTenders, dataSource |-> dataSource,
          lastUpdated |-> lastUpdated, fetchError |-> NonNull(NoTendersFound)]

\* handleFetchTenders, from the point where fetchAndProcessTenders has
\* resolved, at the time clock + 1; fetchAndProcessTenders catches every
\* error and returns [] then, so the catch block is not entered
FetchTendersSettles ==
    /\ isFetching
    /\ \E fetched \in LiveLists :
          LET outcome == fetchTendersOutcome(fetched, clock + 1) IN
          /\ fetchedTenders' = fetched
          /\ liveTenders' = outcome.liveTenders
          /\ dataSource' = outcome.dataSource
          /\ lastUpdated' = outcome.lastUpdated
          /\ fetchError' = outcome.fetchError
    /\ isFetching' = FALSE
    /\ clock' = clock + 1
    /\ UNCHANGED <<apiKeyStatus, autoAnalyze, isAnalyzing, analysisProgress,
                   sessionAnalysisCount, sessionAnalysisCost, analyzedTenders,
                   tenderAnalysisStatus, singleRuns, batchRun, lastSettled>>
    /\ UNCHANGED <<apiKey, today, apiCalls, inFlight>>
    /\ UNCHANGED <<viewVars, notDashboard>>
    /\ IF Len(fetchedTenders') > 0 THEN EffectRuns ELSE UNCHANGED autoTimer

\* the dashboard after its first render: sample data, shown with the default
\* criteria; a key is configured or not, auto-analyze was saved on or off
InitApp ==
    /\ apiKey \in BOOLEAN
    /\ today = 1
    /\ clock = 0
    /\ apiCalls = 0
    /\ inFlight = 0
    /\ ServicesIdle
    /\ LiveIdle
    /\ sampleTenders = <<ViewTender("T1", "new", 1, 100, <<"Healthcare">>,
                                    Fit("Strong Go", 80))>>
    /\ statusFilter = "all"
    /\ recommendationFilter = "all"
    /\ categoryFilter = <<>>
    /\ sortBy = "deadline-asc"
    /\ filteredAndSortedTenders =
           filterAndSort(sampleTenders, "all", "all", <<>>, "deadline-asc").result
    /\ apiKeyStatus = [isReady |-> apiKey]
    /\ autoAnalyze \in BOOLEAN
    /\ isAnalyzing = FALSE
    /\ analysisProgress = [current |-> 0, total |-> 0]
    /\ sessionAnalysisCount = 0
    /\ sessionAnalysisCost = <<>>
    /\ analyzedTenders = {}
    /\ tenderAnalysisStatus = [id \in {} |-> "none"]
    /\ singleRuns = {}
    /\ batchRun = Null
    /\ autoTimer = Null
    /\ lastSettled = [n |-> 0, results |-> <<>>]

NextApp ==
    \/ HandleFetchTenders
    \/ FetchTendersSettles
    \/ HandleDataSourceToggle
    \/ SetAutoAnalyze
    \/ HandleAnalyzeSingleTender
    \/ SingleTenderSettles
    \/ HandleAnalyzeBatch
    \/ AutoAnalyzeTimerFires
    \/ BatchSettles

SpecApp == InitApp /\ [][NextApp]_vars

\* the dashboard without an API key: fetching, switching the data source and
\* sorting
InitLive == InitApp /\ ~apiKey

NextLive ==
    \/ HandleFetchTenders
    \/ FetchTendersSettles
    \/ HandleDataSourceToggle
    \/ SetSortBy

SpecLive == InitLive /\ [][NextLive]_vars

----------------------------------------------------------------------------
(* Claims about the dashboard *)

\* an attempt completes in this step
AttemptCompletes == lastSettled'.n # lastSettled.n

\* C18: when an attempt completes, a tender of its results has the status
\* success, is added to analyzedTenders and is counted in sessionAnalysisCount
\* only if its result has ai_analyzed true, and has the status error if its
\* result has ai_analyzed false, for one tender as for a batch
C18_StatusFollowsResult ==
    [][AttemptCompletes =>
          LET rs == lastSettled'.results IN
          /\ \A k \in 1..Len(rs) :
                /\ StatusOf(tenderAnalysisStatus', rs[k].id) = "success"
                       => AiAnalyzed(rs[k])
                /\ ~AiAnalyzed(rs[k])
                       => StatusOf(tenderAnalysisStatus', rs[k].id) = "error"
                /\ rs[k].id \in analyzedTenders' \ analyzedTenders
                       => AiAnalyzed(rs[k])
          /\ sessionAnalysisCount' - sessionAnalysisCount
                 = Cardinality({k \in 1..Len(rs) : AiAnalyzed(rs[k])})]_vars

\* a batch starts from the timer of the auto-analyze effect in this step
TimerStartsBatch ==
    /\ ~autoTimer.isNull
    /\ batchRun.isNull
    /\ ~batchRun'.isNull
    /\ batchRun'.origin = "timer"

\* C19: a batch that the dashboard starts by itself, from the auto-analyze
\* effect, holds no tender whose analysis failed; such a tender is analyzed
\* again only from a button
C19_FailedNotRetriedByItself ==
    [][TimerStartsBatch =>
          \A k \in 1..Len(batchRun'.tendersToAnalyze) :
              StatusOf(tenderAnalysisStatus, batchRun'.tendersToAnalyze[k].id)
                  # "error"]_vars

\* the fetch settles in this step
FetchCompletes == isFetching /\ clock' # clock

OperationInProgress == isFetching \/ singleRuns # {} \/ ~batchRun.isNull

\* an operation that writes the tender list starts in this step
OperationStarts ==
    \/ ~isFetching /\ isFetching'
    \/ singleRuns' \ singleRuns # {}
    \/ batchRun.isNull /\ ~batchRun'.isNull

\* C21: while a fetch, an analysis of one tender or a batch is in progress, no
\* other analysis and no other fetch starts, from a button or from the
\* auto-analyze timer
C21_OperationsSerialized ==
    [][OperationStarts => ~OperationInProgress]_vars

----------------------------------------------------------------------------
(* The CSV service: parseCSVLine and parseOCDSCSV as functions of the text *)

\* v.replace(/^"|"$/g, empty): a quote at the start and a quote at the end
\* are removed
stripQuotes(v) ==
    LET a == IF v # <<>> /\ Head(v) = "\"" THEN Tail(v) ELSE v
    IN  IF a # <<>> /\ a[Len(a)] = "\"" THEN SubSeq(a, 1, Len(a) - 1) ELSE a

\* the loop of parseCSVLine from the character i on
RECURSIVE parseCSVLineFrom(_, _, _, _, _)
parseCSVLineFrom(line, i, current, inQuotes, result) ==
    IF i > Len(line) THEN Append(result, trim(current))
    ELSE LET char == line[i] IN
         IF char = "\""
         THEN parseCSVLineFrom(line, i + 1, current, ~inQuotes, result)
         ELSE IF char = "," /\ ~inQuotes
         THEN parseCSVLineFrom(line, i + 1, <<>>, inQuotes,
                               Append(result, trim(current)))
         ELSE parseCSVLineFrom(line, i + 1, Append(current, char), inQuotes,
                               result)

\* parseCSVLine(line)
parseCSVLine(line) ==
    LET result == parseCSVLineFrom(line, 1, <<>>, FALSE, <<>>)
    IN  [k \in 1..Len(result) |-> trim(stripQuotes(result[k]))]

\* String.prototype.split with the separator sep, from the character i on
RECURSIVE splitFrom(_, _, _, _)
splitFrom(str, sep, i, current) ==
    IF i > Len(str) THEN <<current>>
    ELSE IF str[i] = sep
         THEN <<current>> \o splitFrom(str, sep, i + 1, <<>>)
         ELSE splitFrom(str, sep, i + 1, Append(current, str[i]))

split(str, sep) == splitFrom(str, sep, 1, <<>>)

\* a sequence of characters as a string
RECURSIVE Str(_)
Str(chars) == IF chars = <<>> THEN "" ELSE Head(chars) \o Str(Tail(chars))

\* the row object of parseOCDSCSV: row[header] = values[index] || empty for
\* every header, a later header of the same name overwriting an earlier one;
\* a column that is no header is undefined, which reads as empty
rowObject(headers, values) ==
    LET at(c) ==
            IF \E k \in 1..Len(headers) : Str(headers[k]) = c
            THEN LET index == CHOOSE k \in 1..Len(headers) :
                                  /\ Str(headers[k]) = c
                                  /\ \A j \in (k + 1)..Len(headers) :
                                         Str(headers[j]) # c
                 IN  IF index <= Len(values) THEN values[index] ELSE <<>>
            ELSE <<>>
    IN  [c \in {"ocid", TitleColumn0, TitleColumn1, BuyerColumn0, BuyerColumn1} |->
            IF c = "ocid" THEN Str(at(c)) ELSE at(c)]

\* parseOCDSCSV(csvText) for the text as it is downloaded
parseOCDSCSVText(csvText) ==
    LET lines == SelectSeq(split(csvText, "\n"), LAMBDA line : trim(line) # <<>>)
    IN  IF Len(lines) < 2 THEN <<>>
        ELSE LET headers == parseCSVLine(lines[1])
             IN  parseOCDSCSVRows([k \in 1..(Len(lines) - 1) |->
                                      rowObject(headers, parseCSVLine(lines[k + 1]))],
                                  1)

\* the longest line and the most data rows of a text
MaxLine == 4
MaxCsvLines == 2

LineChars == {"a", ",", "\"", " "}

\* the header line: tender/title,ocid
HeaderLine ==
    <<"t", "e", "n", "d", "e", "r", "/", "t", "i", "t", "l", "e", ",",
      "o", "c", "i", "d">>

\* data lines: a plain one, one with a comma inside quotes, one without a
\* title, one with fewer fields than the header, one with an unclosed quote
DataLines ==
    { <<"C", "a", "r", "e", ",", "x", "1">>,
      <<"\"", "a", ",", "b", "\"", ",", "x", "2">>,
      <<",", "x", "3">>,
      <<"L", "a", "b">>,
      <<"\"", "N", "H", "S", ",", "x", "4">> }

\* lines joined by newlines
RECURSIVE joinLines(_)
joinLines(lines) ==
    IF lines = <<>> THEN <<>>
    ELSE IF Len(lines) = 1 THEN lines[1]
    ELSE lines[1] \o <<"\n">> \o joinLines(Tail(lines))

CsvTexts ==
    { joinLines(<<HeaderLine>> \o ls) : ls \in SeqUpTo(DataLines, MaxCsvLines) }

ParseLine ==
    /\ textFn = "parseCSVLine"
    /\ textPc = "input"
    /\ textOutput' = Returned(parseCSVLine(textInput))
    /\ textPc' = "done"
    /\ UNCHANGED <<textFn, textInput>>
    /\ UNCHANGED <<envVars, notText>>

ParseText ==
    /\ textFn = "parseOCDSCSV"
    /\ textPc = "input"
    /\ textOutput' = Returned(parseOCDSCSVText(textInput))
    /\ textPc' = "done"
    /\ UNCHANGED <<textFn, textInput>>
    /\ UNCHANGED <<envVars, notText>>

InitCsv ==
    /\ apiKey = FALSE
    /\ today = 1
    /\ clock = 0
    /\ apiCalls = 0
    /\ inFlight = 0
    /\ IdleExceptText
    /\ \/ textFn = "parseCSVLine" /\ textInput \in SeqUpTo(LineChars, MaxLine)
       \/ textFn = "parseOCDSCSV" /\ textInput \in CsvTexts
    /\ textPc = "input"
    /\ textOutput = Null

NextCsv == ParseLine \/ ParseText

SpecCsv == InitCsv /\ [][NextCsv]_vars

\* the number of quote characters of a line
QuoteCount(line) == Cardinality({k \in 1..Len(line) : line[k] = "\""})

\* a data line with unbalanced quotes or with fewer fields than the header
Malformed(line, header) ==
    \/ QuoteCount(line) % 2 = 1
    \/ Len(parseCSVLine(line)) < Len(parseCSVLine(header))

\* the text without its malformed data lines
WithoutMalformed(csvText) ==
    LET lines == split(csvText, "\n")
    IN  joinLines(<<lines[1]>>
                  \o SelectSeq(Tail(lines), LAMBDA line : ~Malformed(line, lines[1])))

\* C23: parseOCDSCSV does not throw on a data row with unbalanced quotes or
\* with fewer fields than the header; the row adds no tender, and the other
\* rows give the tenders they give when the malformed rows are absent
C23_MalformedRowsExcluded ==
    (textFn = "parseOCDSCSV" /\ textPc = "done") =>
        /\ ~textOutput.threw
        /\ textOutput.value = parseOCDSCSVText(WithoutMalformed(textInput))

\* the fields of a line read as the specification reads them: a field that
\* starts with a quote runs to its closing quote, commas included, and a
\* doubled quote in it is one quote character; ok is false for a line with a
\* quote anywhere else or with an unclosed quote
RECURSIVE QuotedFieldsFrom(_, _, _, _, _)
QuotedFieldsFrom(line, i, mode, current, fields) ==
    IF i > Len(line)
    THEN [ok |-> mode # "quoted", fields |-> Append(fields, trim(current))]
    ELSE LET char == line[i] IN
         CASE mode = "start" ->
                IF char = "\""
                THEN QuotedFieldsFrom(line, i + 1, "quoted", <<>>, fields)
                ELSE IF char = ","
                THEN QuotedFieldsFrom(line, i + 1, "start", <<>>,
                                      Append(fields, <<>>))
                ELSE QuotedFieldsFrom(line, i + 1, "plain", <<char>>, fields)
           [] mode = "plain" ->
                IF char = "\"" THEN [ok |-> FALSE, fields |-> fields]
                ELSE IF char = ","
                THEN QuotedFieldsFrom(line, i + 1, "start", <<>>,
                                      Append(fields, trim(current)))
                ELSE QuotedFieldsFrom(line, i + 1, "plain",
                                      Append(current, char), fields)
           [] mode = "quoted" ->
                IF char = "\"" /\ i < Len(line) /\ line[i + 1] = "\""
                THEN QuotedFieldsFrom(line, i + 2, "quoted",
                                      Append(current, "\""), fields)
                ELSE IF char = "\""
                THEN QuotedFieldsFrom(line, i + 1, "closed", current, fields)
                ELSE QuotedFieldsFrom(line, i + 1, "quoted",
                                      Append(current, char), fields)
           [] OTHER ->
                IF char = ","
                THEN QuotedFieldsFrom(line, i + 1, "start", <<>>,
                                      Append(fields, trim(current)))
                ELSE [ok |-> FALSE, fields |-> fields]

QuotedFields(line) == QuotedFieldsFrom(line, 1, "start", <<>>, <<>>)

\* C24: parseCSVLine splits a line on the commas outside quoted fields,
\* strips the quotes that wrap a field, and turns a doubled quote inside a
\* quoted field into one quote character of the token
C24_QuotedFieldsParsed ==
    (textFn = "parseCSVLine" /\ textPc = "done" /\ QuotedFields(textInput).ok) =>
        /\ ~textOutput.threw
        /\ textOutput.value = QuotedFields(textInput).fields

----------------------------------------------------------------------------
(* extractCategories, of the CSV service and of the OCDS JSON service *)

\* String.prototype.includes
includesString(str, sub) ==
    \E i \in 1..(Len(str) - Len(sub) + 1) : SubSeq(str, i, i + Len(sub) - 1) = sub

\* Set.prototype.add on the elements in insertion order
add(categories, category) ==
    IF includes(categories, category) THEN categories
    ELSE Append(categories, category)

\* categoryMap of the CSV service, in the order of its entries
categoryMap ==
    <<[category |-> "Healthcare",
       keywords |->
          {<<"h", "e", "a", "l", "t", "h">>,
           <<"n", "h", "s">>,
           <<"m", "e", "d", "i", "c", "a", "l">>,
           <<"c", "l", "i", "n", "i", "c", "a", "l">>,
           <<"h", "o", "s", "p", "i", "t", "a", "l">>}],
      [category |-> "Community Services",
       keywords |->
          {<<"c", "o", "m", "m", "u", "n", "i", "t", "y">>,
           <<"n", "e", "i", "g", "h", "b", "o", "u", "r", "h", "o", "o", "d">>,
           <<"l", "o", "c", "a", "l">>}],
      [category |-> "Mental Health",
       keywords |->
          {<<"m", "e", "n", "t", "a", "l", " ", "h", "e", "a", "l", "t", "h">>,
           <<"p", "s", "y", "c", "h", "i", "a", "t", "r", "i", "c">>,
           <<"p", "s", "y", "c", "h", "o", "l", "o", "g", "i", "c", "a", "l">>,
           <<"w", "e", "l", "l", "b", "e", "i", "n", "g">>}],
      [category |-> "Urgent Care",
       keywords |->
          {<<"u", "r", "g", "e", "n", "t", " ", "c", "a", "r", "e">>,
           <<"e", "m", "e", "r", "g", "e", "n", "c", "y">>,
           <<"o", "u", "t", " ", "o", "f", " ", "h", "o", "u", "r", "s">>,
           <<"w", "a", "l", "k", "-", "i", "n">>}],
      [category |-> "Primary Care",
       keywords |->
          {<<"p", "r", "i", "m", "a", "r", "y", " ", "c", "a", "r", "e">>,
           <<"g", "p">>,
           <<"g", "e", "n", "e", "r", "a", "l", " ", "p", "r", "a", "c", "t", "i", "c", "e">>,
           <<"f", "a", "m", "i", "l", "y", " ", "p", "r", "a", "c", "t", "i", "c", "e">>}],
      [category |-> "Integrated Care",
       keywords |->
          {<<"i", "n", "t", "e", "g", "r", "a", "t", "e", "d", " ", "c", "a", "r", "e">>,
           <<"i", "c", "s">>,
           <<"i", "c", "b">>,
           <<"i", "n", "t", "e", "g", "r", "a", "t", "e", "d", " ", "h", "e", "a", "l", "t", "h">>}],
      [category |-> "Children & Young People",
       keywords |->
          {<<"c", "h", "i", "l", "d", "r", "e", "n">>,
           <<"p", "a", "e", "d", "i", "a", "t", "r", "i", "c">>,
           <<"p", "e", "d", "i", "a", "t", "r", "i", "c">>,
           <<"y", "o", "u", "n", "g", " ", "p", "e", "o", "p", "l", "e">>,
           <<"y", "o", "u", "t", "h">>}],
      [category |-> "Social Care",
       keywords |->
          {<<"s", "o", "c", "i", "a", "l", " ", "c", "a", "r", "e">>,
           <<"a", "d", "u", "l", "t", " ", "s", "o", "c", "i", "a", "l">>,
           <<"c", "a", "r", "e", " ", "h", "o", "m", "e", "s">>}],
      [category |-> "Rehabilitation",
       keywords |->
          {<<"r", "e", "h", "a", "b", "i", "l", "i", "t", "a", "t", "i", "o", "n">>,
           <<"t", "h", "e", "r", "a", "p", "y">>,
           <<"p", "h", "y", "s", "i", "o", "t", "h", "e", "r", "a", "p", "y">>,
           <<"o", "c", "c", "u", "p", "a", "t", "i", "o", "n", "a", "l", " ", "t", "h", "e", "r", "a", "p", "y">>}],
      [category |-> "Dental Services",
       keywords |->
          {<<"d", "e", "n", "t", "a", "l">>,
           <<"d", "e", "n", "t", "i", "s", "t">>,
           <<"o", "r", "t", "h", "o", "d", "o", "n", "t", "i", "c">>}]>>

\* the loop over Object.entries(categoryMap), from the entry k on
RECURSIVE categoriesFrom(_, _, _)
categoriesFrom(rules, text, k) ==
    IF k > Len(rules) THEN <<>>
    ELSE (IF \E keyword \in rules[k].keywords : includesString(text, keyword)
          THEN <<rules[k].category>> ELSE <<>>)
         \o categoriesFrom(rules, text, k + 1)

\* [...new Set(categories)]
RECURSIVE unique(_)
unique(categories) ==
    IF categories = <<>> THEN <<>>
    ELSE LET init == unique(SubSeq(categories, 1, Len(categories) - 1))
         IN  add(init, categories[Len(categories)])

\* extractCategories(title, description, row) of the CSV service;
\* mainCategory is the column mainProcurementCategory of the row
extractCategoriesCSV(title, description, mainCategory) ==
    LET text == toLowerCase(title \o <<" ">> \o description)
        matched == categoriesFrom(categoryMap, text, 1)
        categories ==
            IF includesString(toLowerCase(mainCategory), <<"s", "e", "r", "v", "i", "c", "e">>)
               /\ Len(matched) = 0
            THEN Append(matched, "Services")
            ELSE matched
    IN  IF Len(categories) > 0 THEN unique(categories) ELSE <<"Other">>

\* extractCategories(tender) of the OCDS JSON service, for a tender object;
\* a field that is absent is the empty text, classification is null or
\* [description]
extractCategoriesOCDS(t) ==
    LET category == t.mainProcurementCategory
        c1 == IF category # <<>>
                 /\ (\/ includesString(category, <<"s", "e", "r", "v", "i", "c", "e", "s">>)
                     \/ includesString(category, <<"S", "e", "r", "v", "i", "c", "e", "s">>))
              THEN <<"Professional Services">> ELSE <<>>
        c2 == IF category # <<>>
                 /\ (\/ includesString(category, <<"g", "o", "o", "d", "s">>)
                     \/ includesString(category, <<"G", "o", "o", "d", "s">>))
              THEN add(c1, "Goods & Supplies") ELSE c1
        c3 == IF category # <<>>
                 /\ (\/ includesString(category, <<"w", "o", "r", "k", "s">>)
                     \/ includesString(category, <<"W", "o", "r", "k", "s">>))
              THEN add(c2, "Construction & Works") ELSE c2
        desc == IF t.classification = Null THEN <<>>
                ELSE toLowerCase(t.classification.description)
        c4 == IF \/ includesString(desc, <<"h", "e", "a", "l", "t", "h">>)
                 \/ includesString(desc, <<"m", "e", "d", "i", "c", "a", "l">>)
              THEN add(c3, "Healthcare") ELSE c3
        c5 == IF includesString(desc, <<"s", "o", "c", "i", "a", "l">>)
              THEN add(c4, "Social Care") ELSE c4
        text == toLowerCase(t.title \o <<" ">> \o t.description)
        has(keyword) == includesString(text, keyword)
        c6 == IF has(<<"h", "e", "a", "l", "t", "h">>) \/ has(<<"n", "h", "s">>) \/ has(<<"m", "e", "d", "i", "c", "a", "l">>)
              THEN add(c5, "Healthcare") ELSE c5
        c7 == IF has(<<"c", "o", "m", "m", "u", "n", "i", "t", "y">>)
              THEN add(c6, "Community Services") ELSE c6
        c8 == IF has(<<"m", "e", "n", "t", "a", "l", " ", "h", "e", "a", "l", "t", "h">>)
                 \/ has(<<"m", "e", "n", "t", "a", "l">>)
              THEN add(c7, "Mental Health") ELSE c7
        c9 == IF \/ has(<<"c", "h", "i", "l", "d", "r", "e", "n">>)
                 \/ has(<<"y", "o", "u", "n", "g", " ", "p", "e", "o", "p", "l", "e">>)
                 \/ has(<<"y", "o", "u", "t", "h">>)
              THEN add(c8, "Children & Young People") ELSE c8
        c10 == IF \/ has(<<"r", "e", "h", "a", "b", "i", "l", "i", "t", "a", "t", "i", "o", "n">>)
                  \/ has(<<"t", "h", "e", "r", "a", "p", "y">>)
                  \/ has(<<"p", "h", "y", "s", "i", "o", "t", "h", "e", "r", "a", "p", "y">>)
               THEN add(c9, "Rehabilitation") ELSE c9
        c11 == IF has(<<"d", "e", "n", "t", "a", "l">>) \/ has(<<"d", "e", "n", "t", "i", "s", "t">>)
               THEN add(c10, "Dental Services") ELSE c10
        categoryArray ==
            IF has(<<"c", "a", "r", "e">>) /\ ~includes(c11, "Healthcare")
            THEN add(c11, "Social Care") ELSE c11
    IN  IF Len(categoryArray) > 0 THEN categoryArray ELSE <<"Other">>

\* titles, descriptions, procurement categories and classifications
CategoryTitles ==
    { <<>>,
      <<"N", "H", "S", " ", "D", "e", "n", "t", "a", "l">>,
      <<"H", "e", "a", "l", "t", "h", " ", "c", "a", "r", "e">>,
      <<"R", "o", "a", "d", " ", "w", "o", "r", "k", "s">>,
      <<"Y", "o", "u", "t", "h", " ", "t", "h", "e", "r", "a", "p", "y">>,
      <<"H", "o", "m", "e", " ", "c", "a", "r", "e">> }

CategoryDescriptions ==
    { <<>>,
      <<"c", "o", "m", "m", "u", "n", "i", "t", "y", " ", "c", "a", "r", "e">>,
      <<"G", "P">> }

ProcurementCategories ==
    { <<>>, <<"s", "e", "r", "v", "i", "c", "e", "s">>, <<"g", "o", "o", "d", "s">> }

Classifications ==
    { Null,
      [description |-> <<"H", "e", "a", "l", "t", "h">>],
      [description |-> <<"S", "o", "c", "i", "a", "l", " ", "w", "o", "r", "k">>] }

ExtractCategoriesCSV ==
    /\ textFn = "extractCategoriesCSV"
    /\ textPc = "input"
    /\ textOutput' = Returned(extractCategoriesCSV(textInput.title,
                                                   textInput.description,
                                                   textInput.mainProcurementCategory))
    /\ textPc' = "done"
    /\ UNCHANGED <<textFn, textInput>>
    /\ UNCHANGED <<envVars, notText>>

ExtractCategoriesOCDS ==
    /\ textFn = "extractCategoriesOCDS"
    /\ textPc = "input"
    /\ textOutput' = Returned(extractCategoriesOCDS(textInput))
    /\ textPc' = "done"
    /\ UNCHANGED <<textFn, textInput>>
    /\ UNCHANGED <<envVars, notText>>

InitCategories ==
    /\ apiKey = FALSE
    /\ today = 1
    /\ clock = 0
    /\ apiCalls = 0
    /\ inFlight = 0
    /\ IdleExceptText
    /\ textFn \in {"extractCategoriesCSV", "extractCategoriesOCDS"}
    /\ textInput \in [title : CategoryTitles,
                      description : CategoryDescriptions,
                      mainProcurementCategory : ProcurementCategories,
                      classification : IF textFn = "extractCategoriesCSV"
                                       THEN {Null} ELSE Classifications]
    /\ textPc = "input"
    /\ textOutput = Null

NextCategories == ExtractCategoriesCSV \/ ExtractCategoriesOCDS

SpecCategories == InitCategories /\ [][NextCategories]_vars

\* the keyword rules of the OCDS JSON service on title and description
textRules ==
    <<[category |-> "Healthcare",
       keywords |->
          {<<"h", "e", "a", "l", "t", "h">>,
           <<"n", "h", "s">>,
           <<"m", "e", "d", "i", "c", "a", "l">>}],
      [category |-> "Community Services",
       keywords |->
          {<<"c", "o", "m", "m", "u", "n", "i", "t", "y">>}],
      [category |-> "Mental Health",
       keywords |->
          {<<"m", "e", "n", "t", "a", "l", " ", "h", "e", "a", "l", "t", "h">>,
           <<"m", "e", "n", "t", "a", "l">>}],
      [category |-> "Children & Young People",
       keywords |->
          {<<"c", "h", "i", "l", "d", "r", "e", "n">>,
           <<"y", "o", "u", "n", "g", " ", "p", "e", "o", "p", "l", "e">>,
           <<"y", "o", "u", "t", "h">>}],
      [category |-> "Rehabilitation",
       keywords |->
          {<<"r", "e", "h", "a", "b", "i", "l", "i", "t", "a", "t", "i", "o", "n">>,
           <<"t", "h", "e", "r", "a", "p", "y">>,
           <<"p", "h", "y", "s", "i", "o", "t", "h", "e", "r", "a", "p", "y">>}],
      [category |-> "Dental Services",
       keywords |->
          {<<"d", "e", "n", "t", "a", "l">>,
           <<"d", "e", "n", "t", "i", "s", "t">>}],
      [category |-> "Social Care",
       keywords |->
          {<<"c", "a", "r", "e">>}]>>

\* the keyword rules of the function that ran
KeywordRules ==
    IF textFn = "extractCategoriesCSV" THEN categoryMap ELSE textRules

\* the categories of the rules with a keyword in the lowercased title and
\* description
FiredCategories ==
    LET text == toLowerCase(textInput.title \o <<" ">> \o textInput.description)
    IN  { KeywordRules[k].category :
            k \in { j \in 1..Len(KeywordRules) :
                      \E keyword \in KeywordRules[j].keywords :
                          includesString(text, keyword) } }

\* C26: the categories of a tender are those of all the rules with a keyword
\* in the lowercased title and description, and Other alone when no rule
\* fires; the list is never empty and Other stands with no other category
C26_AllMatchingRulesOrOther ==
    (textFn \in {"extractCategoriesCSV", "extractCategoriesOCDS"} /\ textPc = "done") =>
        LET categories == textOutput.value IN
        /\ Elements(categories) =
               (IF FiredCategories = {} THEN {"Other"} ELSE FiredCategories)
        /\ Len(categories) > 0
        /\ includes(categories, "Other") => Len(categories) = 1

\* the dashboard with an API key and auto-analyze off: fetching, switching
\* the data source, sorting, and analyzing the tender of the detail panel
InitPanel == InitApp /\ apiKey /\ ~autoAnalyze

NextPanel ==
    \/ HandleFetchTenders
    \/ FetchTendersSettles
    \/ HandleDataSourceToggle
    \/ SetSortBy
    \/ HandleAnalyzeSingleTender
    \/ SingleTenderSettles

SpecPanel == InitPanel /\ [][NextPanel]_vars

\* C27: the displayed list is filter-and-sort of the current working set
\* (the sample tenders or liveTenders, by the data source) under the current
\* criteria, after every fetch, merge of an analysis, switch of the data
\* source and change of a criterion
C27_ViewFollowsWorkingSet ==
    filteredAndSortedTenders =
        filterAndSort(currentTenders, statusFilter, recommendationFilter,
                      categoryFilter, sortBy).result

\* the cards of the displayed list
DisplayedCards ==
    IF filteredAndSortedTenders.threw THEN {}
    ELSE Elements(filteredAndSortedTenders.value)

\* C28: for every tender of the displayed list, the detail panel opens on
\* the tender of the current working set with that id, and the tender passed
\* to the analysis of one tender is a tender of the current working set
C28_PanelShowsWorkingSetTender ==
    /\ [](\A card \in DisplayedCards :
             /\ selectedTender(card.id) # Null
             /\ selectedTender(card.id) \in Elements(currentTenders)
             /\ selectedTender(card.id).id = card.id)
    /\ [][\A run \in singleRuns' \ singleRuns :
             run.tender \in Elements(currentTenders)]_vars

\* a fetch of one tender or more settles in this step
WorkingSetReplaced == FetchCompletes /\ fetchedTenders' # <<>>

\* the dashboard treats the tender as analyzed: by its status, by
\* analyzedTenders, or by leaving it out of the unanalyzed tenders of the
\* button and of the auto-analyze effect
TreatedAsAnalyzed(t, live, analyzed, status) ==
    \/ StatusOf(status, t.id) = "success"
    \/ t.id \in analyzed
    \/ ~includes(unanalyzedOf(live, analyzed), t)

\* C30: after a fetch has replaced the working set, a tender of the new
\* working set is treated as analyzed only if its own record has
\* ai_analyzed true
C30_RefetchForgetsAnalyses ==
    [][WorkingSetReplaced =>
          \A k \in 1..Len(liveTenders') :
              TreatedAsAnalyzed(liveTenders'[k], liveTenders', analyzedTenders',
                                tenderAnalysisStatus')
                  => AiAnalyzed(liveTenders'[k])]_vars

====
